---- MODULE Spec2Model ----
(***************************************************************************)
(* Code mode of mcp-orchestrator: the sandbox executor                     *)
(* (CodeExecutor, codemode/executor.ts) and the generate-execute-repair    *)
(* loop (MCPOrchestrator.generateAndExecute, orchestrator.ts).             *)
(*                                                                         *)
(* Code text is a sequence of statements, a statement a record             *)
(* [op, arg].  Strings that the program builds (error messages, stack      *)
(* traces) are sequences of lines, a line a sequence of string tokens.     *)
(* Time is counted in ticks of one millisecond.                            *)
(***************************************************************************)
EXTENDS Integers, Sequences, FiniteSets, TLC

\* ----------------------------------------------------------------- bounds
MaxTimeout == 2          \* timeouts a caller configures: 1..MaxTimeout ms
MaxRetriesOption == 1    \* maxRetries a caller passes: -1..MaxRetriesOption
MaxOverrun == 2          \* how far the clock runs past the largest timeout

MaxClock == MaxTimeout + MaxOverrun
MaxExecutes == 3         \* execute calls made on one CodeExecutor
MaxAttemptsOption == 3   \* maxAttempts passed to retry: 0..MaxAttemptsOption
MaxSteps == 3            \* steps handed to sequence: 0..MaxSteps
MaxAnswerLines == 4      \* lines of an answer handed to the extraction
MaxSchemaDepth == 2      \* nesting of array schemas
MaxLimit == 2            \* requests a rate-limit window admits: 1..MaxLimit
MaxRequests == 3         \* requestApproval calls
MaxApprovals == 1        \* of them, calls with options.requireApproval
MaxNow == 3              \* how far the clock of the rate limits runs
MaxCancels == 1          \* cancelTask calls per task
MaxIterationsOption == 2 \* the largest options.maxRetries of the tool loop
MaxToolUses == 2         \* tool calls in one sampling response

\* --------------------------------------------------------------- strings
S(op, arg) == [op |-> op, arg |-> arg]

MsText == <<"1ms", "2ms", "3ms", "4ms", "5ms", "6ms">>

\* String.prototype.includes on one line: the line holds the token
LineIncludes(line, tok) == \E i \in 1..Len(line) : line[i] = tok

\* a stack line that names the sandbox host's own machinery
IsInternalFrame(line) ==
    LineIncludes(line, "node:vm:") \/ LineIncludes(line, "node:internal")

\* stack.split('\n').filter(line => !line.includes('node:vm:') &&
\* !line.includes('node:internal')), keeping order
RECURSIVE StripInternalFrames(_)
StripInternalFrames(lines) ==
    IF lines = <<>> THEN <<>>
    ELSE IF IsInternalFrame(Head(lines))
         THEN StripInternalFrames(Tail(lines))
         ELSE <<Head(lines)>> \o StripInternalFrames(Tail(lines))

\* ---------------------------------------------------- the sandbox context
\* vm.createContext({...}): the names given a value
AllowListed ==
    {"tools", "args", "console", "Promise", "setTimeout", "setInterval",
     "clearTimeout", "clearInterval", "Math", "Date", "JSON", "Array",
     "Object", "String", "Number", "Boolean", "RegExp", "Error"}

\* vm.createContext({...}): the names bound to undefined
Blocked ==
    {"process", "require", "__dirname", "__filename", "global", "Buffer",
     "module", "exports"}

\* Evaluating the identifier `name` in the context: a key of the context
\* yields its value, any other identifier raises the realm's ReferenceError.
ReadGlobal(name) ==
    IF name \in AllowListed THEN [threw |-> FALSE, value |-> "object"]
    ELSE IF name \in AllowListed \cup Blocked
         THEN [threw |-> FALSE, value |-> "undefined"]
    ELSE [threw |-> TRUE, value |-> "ReferenceError"]

\* `typeof name` never raises
TypeofGlobal(name) ==
    IF name \in AllowListed THEN "'object'"
    ELSE "'undefined'"

\* the object a path of the sample code writes to
PathRoot ==
    ("Math.leak" :> "Math") @@ ("x" :> "globalThis")
    @@ ("tools.extra" :> "tools")

\* <value>.constructor: an object made on the host side has the host's
\* Object as its constructor, a host function the host's Function; an
\* object literal of the submitted code has the context's own
ConstructorOf(v) ==
    CASE v \in {"Math", "tools", "console", "host.Math"} -> "host.Object"
      [] v \in {"Promise", "host.Object", "host.Function"} -> "host.Function"
      [] v = "{}" -> "ctx.Object"
      [] OTHER -> "ctx.Function"

HostProcess == "host.process"

\* the tools.<name>(input) call sites of the sample code
CallSites ==
    ("echo(1)" :> [name |-> "echo", input |-> "1"])
    @@ ("add(2)" :> [name |-> "add", input |-> "2"])

\* ------------------------------------------------------- thrown values
\* A thrown value: inst = `instanceof Error` of the host realm, conv =
\* String(value) succeeds, msgIsString = typeof value.message is 'string',
\* msg = value.message (inst) or String(value) (otherwise), stack =
\* value.stack as lines (<<>> when falsy).
Thrown(inst, conv, msgIsString, msg, stack) ==
    [inst |-> inst, conv |-> conv, msgIsString |-> msgIsString,
     msg |-> msg, stack |-> stack]

\* frames V8 records below the submitted code: during the synchronous run
\* the code sits under script.runInContext and execute; after the first
\* await it is resumed from the microtask queue
FramesBelow(phase) ==
    IF phase = "sync"
    THEN << <<"at", "sandbox.js">>, <<"at", "Script.runInContext", "node:vm:">>,
            <<"at", "CodeExecutor.execute", "executor.js">>,
            <<"at", "node:internal">> >>
    ELSE << <<"at", "sandbox.js">> >>

\* an Error object built with the host's Error constructor (the context's
\* `Error` is the host's)
HostError(msg, frames) ==
    Thrown(TRUE, TRUE, TRUE, msg, << <<"Error:">> \o msg >> \o frames)

\* the value of `throw <arg>` in submitted code
ThrownByCode(arg, phase) ==
    CASE arg = "Error" -> HostError(<<"boom">>, FramesBelow(phase))
      [] arg = "TimeoutError" ->
            HostError(<<"Script execution timed out">>, FramesBelow(phase))
      [] arg = "String" -> Thrown(FALSE, TRUE, FALSE, <<"oops">>, <<>>)
      [] arg = "TimeoutString" ->
            Thrown(FALSE, TRUE, FALSE, <<"Script execution timed out">>, <<>>)
      [] arg = "Unprintable" -> Thrown(FALSE, FALSE, FALSE, <<>>, <<>>)
      [] arg = "BadMessage" ->
            Thrown(TRUE, TRUE, FALSE, <<>>,
                   << <<"Error:">> >> \o FramesBelow(phase))
      [] OTHER -> Thrown(FALSE, TRUE, FALSE, <<arg>>, <<>>)

\* new vm.Script(...) on text that does not parse
SyntaxErrorValue ==
    Thrown(TRUE, TRUE, TRUE, <<"Unexpected identifier">>,
           << <<"sandbox.js:3">>, <<"SyntaxError:", "Unexpected identifier">>,
              <<"at", "new Script", "node:vm:">>,
              <<"at", "CodeExecutor.execute", "executor.js">>,
              <<"at", "node:internal">> >>)

\* script.runInContext(..., {timeout}) when the watchdog fires
VmTimeoutError(t) ==
    HostError(<<"Script execution timed out", "after", MsText[t]>>,
              << <<"at", "Script.runInContext", "node:vm:">>,
                 <<"at", "CodeExecutor.execute", "executor.js">>,
                 <<"at", "node:internal">> >>)

\* a rejected tool dispatch: an Error built on the host side
ToolError ==
    HostError(<<"tool failed">>,
              << <<"at", "MCPOrchestrator.callTool", "orchestrator.js">> >>)

\* `Execution timed out after ${this.timeout}ms`
TimeoutMessage(t) == <<"Execution timed out", "after", MsText[t]>>

\* ------------------------------------------- execute: the catch branch
\* executor.ts catch (error): the error text, or threw = TRUE when the
\* handler itself raises.
CatchBranch(e, t) ==
    IF (~e.inst /\ ~e.conv) \/ (e.inst /\ ~e.msgIsString)
    THEN [threw |-> TRUE, error |-> <<>>]
    ELSE LET m1 == e.msg
             m2 == IF LineIncludes(m1, "Script execution timed out")
                   THEN TimeoutMessage(t) ELSE m1
             stack == StripInternalFrames(e.stack)
             m3 == IF e.inst /\ e.stack # <<>> /\ stack # <<>>
                   THEN stack ELSE <<m2>>
         IN  [threw |-> FALSE, error |-> m3]

\* ------------------------------------------------------ submitted code
\* the code handed to execute, by the name it is referred to below
Code ==
    [Return |-> << S("return", "42") >>,
     \* console.log('a'); return 1
     LogReturn |-> << S("console.log", "a"), S("return", "1") >>,
     Invalid |-> << S("invalid", "") >>,
     \* while (true) {}
     Spin |-> << S("spin", "") >>,
     AwaitNever |-> << S("await", "never") >>,
     AwaitReturn |-> << S("await", "resolve"), S("return", "done") >>,
     AwaitReject |-> << S("await", "reject") >>,
     AwaitSpin |-> << S("await", "resolve"), S("spin", "") >>,
     \* console.warn('a'); console.info('b'); console.debug('a');
     \* console.log('b'); console.error('a')
     LogLevels |-> << S("console.warn", "a"), S("console.info", "b"),
                     S("console.debug", "a"), S("console.log", "b"),
                     S("console.error", "a") >>,
     \* console.log('a'); while (true) {}
     LogSpin |-> << S("console.log", "a"), S("spin", "") >>,
     \* setTimeout(() => console.log('late'), 10); console.log('a'); return 1
     Defer |-> << S("setTimeout", "late"), S("console.log", "a"),
                 S("return", "1") >>,
     \* setTimeout(() => console.log('late'), 10); await p; console.log('a')
     DeferAwait |-> << S("setTimeout", "late"), S("await", "resolve"),
                      S("console.log", "a") >>,
     \* setTimeout(() => console.log('late'), 10); while (true) {}
     DeferSpin |-> << S("setTimeout", "late"), S("spin", "") >>,
     \* return await tools.echo(1)
     Call |-> << S("call", "echo(1)"), S("return", "acc") >>,
     \* await tools.echo(1); return await tools.echo(1)
     CallTwice |-> << S("call", "echo(1)"), S("call", "echo(1)"),
                     S("return", "acc") >>,
     \* await tools.echo(1); return await tools.add(2)
     CallTwo |-> << S("call", "echo(1)"), S("call", "add(2)"),
                   S("return", "acc") >>,
     \* try { return await tools.add(2) } catch (e) { return 'caught' }
     TryCall |-> << S("trycall", "add(2)"), S("return", "acc") >>,
     \* console.log('a'); await p; console.log('b')
     LogAwaitLog |-> << S("console.log", "a"), S("await", "resolve"),
                       S("console.log", "b") >>,
     \* await p; console.warn('c')
     AwaitLog |-> << S("await", "resolve"), S("console.warn", "c") >>]

CodeThrow(arg) == << S("console.error", "e"), S("throw", arg) >>

\* return <name>, return typeof <name>, return <path> and
\* return <root>.constructor.constructor('return process')()
CodeOf(op, arg) == << S(op, arg), S("return", "acc") >>

Codes ==
    {Code.Return, Code.LogReturn, Code.Invalid, Code.Spin, Code.AwaitNever,
     Code.AwaitReturn, Code.AwaitReject, Code.AwaitSpin, Code.LogLevels,
     Code.LogSpin, Code.Defer, Code.DeferAwait, Code.DeferSpin, Code.Call,
     Code.CallTwice, Code.CallTwo, Code.TryCall}
    \cup {CodeThrow(a) :
             a \in {"Error", "TimeoutError", "String", "TimeoutString",
                    "Unprintable", "BadMessage"}}
    \cup {CodeOf("read", n) :
             n \in {"process", "require", "Math", "fetch", "fs"}}
    \cup {CodeOf("typeof", n) : n \in {"process", "fetch"}}
    \cup {<< S("set", p) >> : p \in {"Math.leak", "x", "tools.extra"}}
    \cup {CodeOf("get", p) : p \in {"Math.leak", "x", "tools.extra"}}
    \cup {CodeOf("escape", r) : r \in {"Math", "tools", "console", "Promise"}}

\* the code a generating backend answers with
GeneratedCodes ==
    {Code.Return, Code.Invalid, Code.Spin, Code.AwaitReject, Code.AwaitReturn,
     Code.AwaitNever, CodeThrow("Error"), CodeThrow("Unprintable")}

\* ---------------------------------------------------------------- state
VARIABLES
    execState,      \* idle | sync | awaiting | async | ended
    caller,         \* who awaits the execution: none | direct | loop
    prog,           \* the code text given to execute
    ip,             \* the statement the code is at
    timeout,        \* CodeExecutor.timeout
    elapsed,        \* Date.now() - startTime
    acc,            \* the value of the code's last expression
    consoleOutput,  \* CodeExecutor.consoleOutput
    captureConsole, \* CodeExecutor.captureConsole
    outcome,        \* what execute gave its caller
    cause,          \* how the execution ended
    lastRead,       \* the last identifier the code evaluated
    timers,         \* callbacks the code left with the host's setTimeout
    ctx,            \* paths written on objects made for this call
    host,           \* paths written on objects of the host
    dispatched,     \* the callTool(name, input) calls the orchestrator got
    obs             \* what the code of this execution did and saw

execVars ==
    <<execState, caller, prog, ip, timeout, elapsed, acc, consoleOutput,
      captureConsole, outcome, cause, lastRead, timers, ctx, host, dispatched, obs>>

VARIABLES
    gpc,            \* idle | generate | fix | executing | returned | thrown
    maxRetries,     \* options?.maxRetries ?? 2
    loopTimeout,    \* options.timeout handed to every executeCode
    attempt,        \* the loop counter
    code,           \* the code extracted from the last answer
    lastError,      \* the error of the last failed execution
    ret,            \* the value generateAndExecute returned
    thrownError,    \* the error generateAndExecute threw
    genCalls,       \* llm.generate calls of this run
    execCalls,      \* executeCode calls of this run
    execOf,         \* per execution, the generate call whose code it ran
    attemptOk,      \* per execution the loop has seen, result.success
    errors,         \* per failed execution the loop has seen, result.error
    codeResponse,   \* the last answer of llm.generate
    fixPrompt       \* the last follow-up prompt handed to llm.generate

loopVars ==
    <<gpc, maxRetries, loopTimeout, attempt, code, lastError, ret,
      thrownError, genCalls, execCalls, execOf, attemptOk, errors,
      codeResponse, fixPrompt>>

VARIABLES
    heap,           \* the arrays one CodeExecutor has made for its output
    current,        \* the array this.consoleOutput refers to
    runs            \* the execute calls made on that CodeExecutor

reuseVars == <<heap, current, runs>>

VARIABLES
    rpc,            \* idle | calling | waiting | resolved | rejected
    maxAttempts,    \* options.maxAttempts
    backoff,        \* options.backoff
    retryIf,        \* options.retryIf
    retryAttempt,   \* the loop counter of retry
    retryLastError, \* lastError of retry
    delay,          \* what is left of the pause before the next call
    fnCalls,        \* how each call of fn settled, oldest first
    retrySettled    \* how the promise of retry settled

retryVars ==
    <<rpc, maxAttempts, backoff, retryIf, retryAttempt, retryLastError, delay,
      fnCalls, retrySettled>>

VARIABLES
    tools,          \* ToolRegistry.tools, in the order of the Map
    emitted,        \* the events the last call on the registry emitted
    bound,          \* what the last call of a generated binding reached
    lastRegistered  \* per tool name, what register was last called with

registryVars == <<tools, emitted, bound, lastRegistered>>

VARIABLES
    files,          \* the files of the storage directory
    saved,          \* per snippet name, the snippet saved last under it
    snippetGot      \* the last getSnippet call and what it returned

snippetVars == <<files, saved, snippetGot>>

VARIABLES
    steps,          \* the steps handed to sequence
    stepAt,         \* the step sequence is at
    initialContext, \* initialContext of sequence
    context,        \* context of sequence
    stepCalls,      \* the calls of steps made, oldest first
    sequenceSettled \* how the promise of sequence settled

sequenceVars ==
    <<steps, stepAt, initialContext, context, stepCalls, sequenceSettled>>

VARIABLES
    response,       \* the answer handed to extractCodeFromResponse
    extracted       \* what it returned

extractVars == <<response, extracted>>

VARIABLES
    schema,         \* the input schema handed to schemaToTypeScript
    generated       \* the members it generated, one per property

typeVars == <<schema, generated>>

libVars == <<registryVars, snippetVars, sequenceVars, extractVars, typeVars>>

VARIABLES
    now,            \* Date.now(), in units of the shortest window
    rateConfig,     \* SamplingSecurityManager.defaultRateLimit
    rateLimits,     \* SamplingSecurityManager.rateLimits
    approvals,      \* per approval id: its queue entry, timer and promise
    admitted,       \* origin and time of every request let through
    lastRequest     \* the last requestApproval call

securityVars ==
    <<now, rateConfig, rateLimits, approvals, admitted, lastRequest>>

VARIABLES
    bpc,            \* per task, where execute is: idle | handling | done
    events,         \* what the event bus was handed, oldest first
    finishedCalls   \* per task, the calls of eventBus.finished()

bridgeVars == <<bpc, events, finishedCalls>>

VARIABLE
    sampling        \* SamplingClient.handleToolLoop: pc, maxIterations, i,
                    \* the requests sent, currentRequest.messages, the result

VARIABLES
    clients,        \* this.clients: the server names, in insertion order
    cpc,            \* per server, where connectToServer is
    closed,         \* the servers whose client.close() has settled
    dpc,            \* where disconnect is, and at which entry of clients
    apiContext,     \* the tool names generateAndExecute described
    attemptTools    \* per execution attempt, the tool names bound

orchestratorVars == <<clients, cpc, closed, dpc, apiContext, attemptTools>>

serviceVars == <<securityVars, bridgeVars, sampling, orchestratorVars>>

NoOutcome ==
    [kind |-> "none", success |-> FALSE, hasResult |-> FALSE,
     result |-> "", hasError |-> FALSE, error |-> <<>>, executionTime |-> 0]

\* return { success: true, output, result, executionTime }
SuccessResult(value, time) ==
    [kind |-> "result", success |-> TRUE, hasResult |-> TRUE,
     result |-> value, hasError |-> FALSE, error |-> <<>>,
     executionTime |-> time]

\* return { success: false, output, error: errorMessage, executionTime }
FailureResult(text, time) ==
    [kind |-> "result", success |-> FALSE, hasResult |-> FALSE,
     result |-> "", hasError |-> TRUE, error |-> text,
     executionTime |-> time]

\* execute's own promise rejects
Rejection == [NoOutcome EXCEPT !.kind = "rejected"]

NoRead == [name |-> "", threw |-> FALSE, value |-> ""]

NoSettle == [kind |-> "none", value |-> ""]

\* nothing done or seen yet
NoObs ==
    [calls |-> <<>>,        \* the console calls made, oldest first
     returned |-> FALSE,    \* execute has handed its result over
     atReturn |-> <<>>,     \* the output as it was at that moment
     wrote |-> {},          \* the paths this code wrote
     got |-> "",            \* the path this code read last
     saw |-> "",            \* and what it found there
     asked |-> <<>>,        \* the tools.* call sites run, oldest first
     settled |-> NoSettle,  \* how the last dispatch of them settled
     inTry |-> FALSE,       \* the call that was rejected sat in a try
     pending |-> 0]         \* awaited operations that have not settled

ExecInit ==
    /\ execState = "idle"
    /\ captureConsole = TRUE
    /\ caller = "none"
    /\ prog = <<>>
    /\ ip = 0
    /\ timeout = 1
    /\ elapsed = 0
    /\ acc = "undefined"
    /\ consoleOutput = <<>>
    /\ outcome = NoOutcome
    /\ cause = "none"
    /\ lastRead = NoRead
    /\ timers = <<>>
    /\ ctx = {}
    /\ host = {}
    /\ dispatched = <<>>
    /\ obs = NoObs

\* return { ..., output: this.consoleOutput, ... }: the caller holds the
\* array the proxy goes on pushing to
Returned(o) == [o EXCEPT !.returned = TRUE, !.atReturn = consoleOutput]

\* the wrapped code's promise fulfils: the try branch of execute
Complete(value) ==
    /\ execState' = "ended"
    /\ outcome' = SuccessResult(value, elapsed)
    /\ cause' = "Completed"
    /\ obs' = Returned(obs)

\* the wrapped code's promise rejects, compilation fails or the watchdog
\* fires: the catch branch of execute
FailWith(e, why, o) ==
    LET c == CatchBranch(e, timeout) IN
    /\ execState' = "ended"
    /\ outcome' = IF c.threw THEN Rejection
                  ELSE FailureResult(c.error, elapsed)
    /\ cause' = IF c.threw THEN "Rejected" ELSE why
    /\ obs' = Returned(o)

\* this.captureConsole = options.captureConsole !== false
CaptureConsoleOf(option) == option # "false"

\* generateToolsAPI(), new CodeExecutor(toolsAPI, options) and
\* execute(code), up to the start of the synchronous run
StartExecution(text, t, who) ==
    /\ caller' = who
    /\ captureConsole' \in
          IF who = "loop" THEN {captureConsole}
          ELSE {CaptureConsoleOf(o) : o \in {"unset", "true", "false"}}
    /\ prog' = text
    /\ timeout' = t
    /\ elapsed' = 0
    /\ acc' = "undefined"
    /\ consoleOutput' = <<>>
    /\ lastRead' = NoRead
    /\ timers' = <<>>
    /\ ctx' = {}
    /\ dispatched' = <<>>
    /\ UNCHANGED host
    /\ IF \A i \in 1..Len(text) : text[i].op # "invalid"
       THEN /\ execState' = "sync"
            /\ ip' = 1
            /\ outcome' = NoOutcome
            /\ cause' = "none"
            /\ obs' = NoObs
       ELSE /\ ip' = 0
            /\ execState' = "ended"
            /\ outcome' = LET c == CatchBranch(SyntaxErrorValue, t) IN
                          IF c.threw THEN Rejection
                          ELSE FailureResult(c.error, 0)
            /\ cause' = "Failed"
            /\ obs' = [NoObs EXCEPT !.returned = TRUE]

Running == execState \in {"sync", "async"}

AtEnd == Running /\ ip > Len(prog)

Stmt == prog[ip]

ConsoleMethods ==
    {"console.log", "console.error", "console.warn", "console.info",
     "console.debug"}

\* the message a method of the console proxy builds
ConsoleLine(op, arg) ==
    CASE op = "console.error" -> <<"[ERROR]", arg>>
      [] op = "console.warn" -> <<"[WARN]", arg>>
      [] op = "console.info" -> <<"[INFO]", arg>>
      [] op = "console.debug" -> <<"[DEBUG]", arg>>
      [] OTHER -> <<arg>>

\* the newest entry is put in front of the older ones
Push_Front(buffer, message) == <<message>> \o buffer

\* self.consoleOutput.push(message)
Push(buffer, message) == Append(buffer, message)

\* the binding answers a repeated call from the first one's dispatch
Forward_Memoized(log, site) ==
    IF \E i \in 1..Len(log) : log[i] = CallSites[site]
    THEN log ELSE Append(log, CallSites[site])

\* tools[tool.name] = async (input) => this.orchestrator.callTool(tool.name,
\* input): the dispatch the binding issues
Forward(log, site) == Append(log, CallSites[site])

\* a rejected dispatch is taken for a tool that answered nothing
Catches_Always(op) == TRUE

\* the await sits in a try block of the submitted code
Catches(op) == op = "trycall"

\* the wrapper drops what the code returns
ReturnValue_Dropped(arg, a) == "undefined"

\* (async () => { ... return <arg> })(): what the wrapped code's promise
\* fulfils with
ReturnValue(arg, a) == IF arg = "acc" THEN a ELSE arg

\* one statement of the submitted code
Step ==
    /\ UNCHANGED <<loopVars, reuseVars, retryVars, libVars, serviceVars>>
    /\ Running
    /\ UNCHANGED <<caller, prog, timeout, elapsed, captureConsole>>
    /\ \/ /\ AtEnd
          /\ Complete("undefined")
          /\ UNCHANGED <<ip, acc, consoleOutput, lastRead, timers, ctx,
                         host, dispatched>>
       \/ /\ ~AtEnd
          /\ Stmt.op \in ConsoleMethods
          /\ consoleOutput' =
                Push(consoleOutput, ConsoleLine(Stmt.op, Stmt.arg))
          /\ obs' = [obs EXCEPT !.calls = Append(@, Stmt)]
          /\ ip' = ip + 1
          /\ UNCHANGED <<execState, acc, outcome, cause, lastRead, timers,
                         ctx, host, dispatched>>
       \/ /\ ~AtEnd
          /\ Stmt.op = "typeof"
          /\ acc' = TypeofGlobal(Stmt.arg)
          /\ ip' = ip + 1
          /\ UNCHANGED <<execState, consoleOutput, outcome, cause, lastRead,
                         timers, ctx, host, dispatched, obs>>
       \/ /\ ~AtEnd
          /\ Stmt.op = "read"
          /\ LET r == ReadGlobal(Stmt.arg) IN
             /\ lastRead' = [name |-> Stmt.arg, threw |-> r.threw,
                             value |-> r.value]
             /\ IF r.threw
                THEN \* a ReferenceError raised by the engine inside the
                     \* context: an object of the context's realm
                     /\ FailWith(Thrown(FALSE, TRUE, TRUE,
                                        <<"ReferenceError:", Stmt.arg>>,
                                        <<>>),
                                 "Failed", obs)
                     /\ UNCHANGED <<ip, acc>>
                ELSE /\ acc' = r.value
                     /\ ip' = ip + 1
                     /\ UNCHANGED <<execState, outcome, cause, obs>>
          /\ UNCHANGED <<consoleOutput, timers, ctx, host, dispatched>>
       \/ /\ ~AtEnd
          /\ Stmt.op = "return"
          /\ Complete(ReturnValue(Stmt.arg, acc))
          /\ UNCHANGED <<ip, acc, consoleOutput, lastRead, timers, ctx,
                         host, dispatched>>
       \/ /\ ~AtEnd
          /\ Stmt.op = "throw"
          /\ FailWith(ThrownByCode(Stmt.arg, execState), "Failed", obs)
          /\ UNCHANGED <<ip, acc, consoleOutput, lastRead, timers, ctx,
                         host, dispatched>>
       \/ /\ ~AtEnd
          /\ Stmt.op = "await"
          /\ execState' = "awaiting"
          /\ obs' = [obs EXCEPT !.pending = @ + 1]
          /\ UNCHANGED <<ip, acc, consoleOutput, outcome, cause, lastRead,
                         timers, ctx, host, dispatched>>
       \/ /\ ~AtEnd
          /\ Stmt.op = "setTimeout"
          /\ timers' = Append(timers, Stmt.arg)
          /\ ip' = ip + 1
          /\ UNCHANGED <<execState, acc, consoleOutput, outcome, cause,
                         lastRead, ctx, host, dispatched, obs>>
       \/ /\ ~AtEnd
          /\ Stmt.op = "set"
          /\ IF PathRoot[Stmt.arg]
                \in AllowListed \ {"tools", "args", "console"}
             THEN host' = host \cup {Stmt.arg} /\ UNCHANGED ctx
             ELSE ctx' = ctx \cup {Stmt.arg} /\ UNCHANGED host
          /\ obs' = [obs EXCEPT !.wrote = @ \cup {Stmt.arg}]
          /\ ip' = ip + 1
          /\ UNCHANGED <<execState, acc, consoleOutput, outcome, cause,
                         lastRead, timers, dispatched>>
       \/ /\ ~AtEnd
          /\ Stmt.op = "get"
          /\ acc' = IF Stmt.arg \in host \cup ctx
                    THEN "'number'" ELSE "'undefined'"
          /\ obs' = [obs EXCEPT !.got = Stmt.arg, !.saw = acc']
          /\ ip' = ip + 1
          /\ UNCHANGED <<execState, consoleOutput, outcome, cause, lastRead,
                         timers, ctx, host, dispatched>>
       \/ /\ ~AtEnd
          /\ Stmt.op \in {"call", "trycall"}
          /\ dispatched' = Forward(dispatched, Stmt.arg)
          /\ obs' = [obs EXCEPT !.asked = Append(@, Stmt.arg),
                                !.settled = NoSettle,
                                !.pending = @ + 1]
          /\ execState' = "awaiting"
          /\ UNCHANGED <<ip, acc, consoleOutput, outcome, cause, lastRead,
                         timers, ctx, host>>
       \/ /\ ~AtEnd
          /\ Stmt.op = "escape"
          /\ acc' = IF ConstructorOf(ConstructorOf(Stmt.arg)) = "host.Function"
                    THEN HostProcess ELSE ReadGlobal("process").value
          /\ ip' = ip + 1
          /\ UNCHANGED <<execState, consoleOutput, outcome, cause, lastRead,
                         timers, ctx, host, dispatched, obs>>

\* the promise the code awaits settles
Settle ==
    /\ UNCHANGED <<loopVars, reuseVars, retryVars, libVars, serviceVars>>
    /\ execState = "awaiting"
    /\ UNCHANGED <<caller, prog, timeout, elapsed, consoleOutput, lastRead,
                   timers, ctx, host, dispatched, captureConsole>>
    /\ \/ /\ Stmt.op = "await"
          /\ Stmt.arg = "resolve"
          /\ execState' = "async"
          /\ ip' = ip + 1
          /\ obs' = [obs EXCEPT !.pending = @ - 1]
          /\ UNCHANGED <<acc, outcome, cause>>
       \/ /\ Stmt.op = "await"
          /\ Stmt.arg = "reject"
          /\ FailWith(ToolError, "Failed", [obs EXCEPT !.pending = @ - 1])
          /\ UNCHANGED <<ip, acc>>
       \/ /\ Stmt.op \in {"call", "trycall"}
          /\ \E v \in {"r1", "r2"} :
                /\ acc' = v
                /\ obs' = [obs EXCEPT
                             !.settled = [kind |-> "resolved", value |-> v],
                             !.pending = @ - 1]
          /\ execState' = "async"
          /\ ip' = ip + 1
          /\ UNCHANGED <<outcome, cause>>
       \/ /\ Stmt.op \in {"call", "trycall"}
          /\ LET o == [obs EXCEPT
                         !.settled = [kind |-> "rejected", value |-> ""],
                         !.inTry = Stmt.op = "trycall",
                         !.pending = @ - 1]
             IN  IF Catches(Stmt.op)
                 THEN /\ acc' = "caught"
                      /\ obs' = o
                      /\ execState' = "async"
                      /\ ip' = ip + 1
                      /\ UNCHANGED <<outcome, cause>>
                 ELSE /\ FailWith(ToolError, "Failed", o)
                      /\ UNCHANGED <<ip, acc>>

\* a callback the code left with setTimeout runs: the host runs it once
\* no code is on the stack, whether or not execute has returned
TimerFires ==
    /\ UNCHANGED <<loopVars, reuseVars, retryVars, libVars, serviceVars>>
    /\ execState \in {"awaiting", "ended"}
    /\ timers # <<>>
    /\ consoleOutput' =
          Push(consoleOutput, ConsoleLine("console.log", Head(timers)))
    /\ obs' = [obs EXCEPT !.calls = Append(@, S("console.log", Head(timers)))]
    /\ timers' = Tail(timers)
    /\ UNCHANGED <<execState, caller, prog, ip, timeout, elapsed, acc,
                   outcome, cause, lastRead, ctx, host, dispatched,
                   captureConsole>>

Spinning == Running /\ ~AtEnd /\ Stmt.op = "spin"

\* a millisecond passes while the code spins or is suspended; the vm
\* watchdog covers only the synchronous run of script.runInContext
Tick ==
    /\ UNCHANGED <<loopVars, reuseVars, retryVars, libVars, serviceVars>>
    /\ \/ execState = "awaiting"
       \/ Spinning /\ execState = "async"
       \/ Spinning /\ execState = "sync" /\ elapsed < timeout
    /\ elapsed < MaxClock
    /\ elapsed' = elapsed + 1
    /\ UNCHANGED <<execState, caller, prog, ip, timeout, acc, consoleOutput,
                   outcome, cause, lastRead, timers, ctx, host, dispatched,
                   obs, captureConsole>>

\* the vm watchdog ends the synchronous run
WatchdogFires ==
    /\ UNCHANGED <<loopVars, reuseVars, retryVars, libVars, serviceVars>>
    /\ Spinning
    /\ execState = "sync"
    /\ elapsed >= timeout
    /\ FailWith(VmTimeoutError(timeout), "TimedOut", obs)
    /\ UNCHANGED <<caller, prog, ip, timeout, elapsed, acc, consoleOutput,
                   lastRead, timers, ctx, host, dispatched, captureConsole>>

\* ------------------------------------------------- generating backend
Prose == S("prose", "")
FenceOpen == S("fence", "typescript")
FenceClose == S("fence", "")
Blank == S("blank", "")

IsBlank(seg) == seg.op = "blank"

\* String.prototype.trim
RECURSIVE TrimLeft(_)
TrimLeft(text) ==
    IF text # <<>> /\ IsBlank(Head(text)) THEN TrimLeft(Tail(text)) ELSE text

RECURSIVE TrimRight(_)
TrimRight(text) ==
    IF text # <<>> /\ IsBlank(text[Len(text)])
    THEN TrimRight(SubSeq(text, 1, Len(text) - 1)) ELSE text

Trim(text) == TrimRight(TrimLeft(text))

\* positions of the first opening fence and of the first fence after it
\* the language tags of /```(?:typescript|ts|javascript|js)?\n/

\* a line that is ``` with one of the tags or none opens a block; any line
\* that starts with ``` closes one
FenceStarts(r) ==
    {i \in 1..Len(r) : r[i].op = "fence" /\ r[i].arg \in {"typescript", "ts", "javascript", "js", ""}}
FirstFence(r) == CHOOSE i \in FenceStarts(r) : \A j \in FenceStarts(r) : i <= j
FenceEnds(r) == {j \in 1..Len(r) : r[j].op = "fence" /\ j > FirstFence(r)}

\* codemode/prompts.ts extractCodeFromResponse
extractCodeFromResponse(r) ==
    IF FenceStarts(r) # {} /\ FenceEnds(r) # {}
    THEN LET closing == CHOOSE j \in FenceEnds(r) :
                            \A k \in FenceEnds(r) : j <= k
         IN  Trim(SubSeq(r, FirstFence(r) + 1, closing - 1))
    ELSE Trim(r)

\* ------------------------------------- one CodeExecutor, several executes

\* code of some execute call is on the stack
OnStack == \E r \in 1..Len(runs) : runs[r].state = "running"

\* execute(code) up to the start of the synchronous run:
\* this.consoleOutput = []
ReuseExecute ==
    /\ UNCHANGED <<execVars, loopVars, retryVars, libVars, serviceVars>>
    /\ Len(runs) < MaxExecutes
    /\ ~OnStack
    /\ \E c \in {Code.LogReturn, Code.LogAwaitLog, Code.AwaitLog} :
          runs' = Append(runs, [prog |-> c, ip |-> 1, state |-> "running",
                                output |-> 0, said |-> 0])
    /\ heap' = Append(heap, <<>>)
    /\ current' = Len(heap) + 1

\* one statement of the code of a call; the console proxy pushes to the
\* array this.consoleOutput refers to at that moment, and execute returns
\* the array it refers to when the code has finished
ReuseStep ==
    /\ UNCHANGED <<execVars, loopVars, retryVars, libVars, serviceVars>>
    /\ \E r \in 1..Len(runs) :
          LET run == runs[r]
              done == run.ip > Len(run.prog)
              st == run.prog[run.ip]
          IN  /\ run.state = "running"
              /\ \/ /\ IF done THEN TRUE ELSE st.op = "return"
                    /\ runs' = [runs EXCEPT ![r].state = "ended",
                                            ![r].output = current]
                    /\ UNCHANGED heap
                 \/ /\ ~done
                    /\ st.op \in ConsoleMethods
                    /\ heap' = [heap EXCEPT ![current] =
                                  Push(@, [by |-> r,
                                           line |-> ConsoleLine(st.op, st.arg)])]
                    /\ runs' = [runs EXCEPT ![r].ip = @ + 1,
                                            ![r].said = @ + 1]
                 \/ /\ ~done
                    /\ st.op = "await"
                    /\ runs' = [runs EXCEPT ![r].state = "awaiting"]
                    /\ UNCHANGED heap
    /\ UNCHANGED current

\* the promise the code of a call awaits settles, and the code goes on
\* once no other code is on the stack
ReuseSettle ==
    /\ UNCHANGED <<execVars, loopVars, retryVars, libVars, serviceVars>>
    /\ ~OnStack
    /\ \E r \in 1..Len(runs) :
          /\ runs[r].state = "awaiting"
          /\ runs' = [runs EXCEPT ![r].state = "running", ![r].ip = @ + 1]
    /\ UNCHANGED <<heap, current>>

\* ------------------------------------------------------------ retry

\* the predicate is never asked
GivesUpOn_Never(pred, e) == FALSE

\* retryIf && !retryIf(error)
GivesUpOn(pred, e) == pred # "none" /\ e # "transient"

\* the pause has the default initialDelay, taken as one unit of time
InitialDelay == 1

RECURSIVE Pow2(_)
\* Math.pow(2, n)
Pow2(n) == IF n = 0 THEN 1 ELSE 2 * Pow2(n - 1)

\* backoff === 'exponential' ? initialDelay * Math.pow(2, attempt - 1)
\*                           : initialDelay
BackoffDelay(kind, a) ==
    IF kind = "exponential" THEN InitialDelay * Pow2(a - 1) ELSE InitialDelay

\* for (let attempt = 1; attempt <= maxAttempts; attempt++)
RetryLoopCondition(a, m) == a <= m

\* the call before the last one is taken for the last
LastAttempt_OneEarly(a, m) == a = m - 1

\* if (attempt === maxAttempts)
LastAttempt(a, m) == a = m

\* the loop head: call fn, or leave the loop and throw lastError
LoopHead(a) ==
    IF RetryLoopCondition(a, maxAttempts')
    THEN /\ rpc' = "calling"
         /\ retrySettled' = NoSettle
    ELSE /\ rpc' = "rejected"
         /\ retrySettled' = [kind |-> "rejected", value |-> retryLastError']

\* retry(fn, options) up to the first call of fn
Retry ==
    /\ UNCHANGED <<execVars, loopVars, reuseVars, libVars, serviceVars>>
    /\ rpc \in {"idle", "resolved", "rejected"}
    /\ maxAttempts' \in 0..MaxAttemptsOption
    /\ backoff' \in {"linear", "exponential"}
    /\ retryIf' \in {"none", "transientOnly"}
    /\ retryAttempt' = 1
    /\ retryLastError' = "undefined"
    /\ delay' = 0
    /\ fnCalls' = <<>>
    /\ LoopHead(1)

\* return await fn()
FnResolves ==
    /\ UNCHANGED <<execVars, loopVars, reuseVars, libVars, serviceVars>>
    /\ rpc = "calling"
    /\ \E v \in {"v1", "v2"} :
          /\ fnCalls' = Append(fnCalls, [ok |-> TRUE, value |-> v])
          /\ retrySettled' = [kind |-> "resolved", value |-> v]
    /\ rpc' = "resolved"
    /\ UNCHANGED <<maxAttempts, backoff, retryIf, retryAttempt,
                   retryLastError, delay>>

\* the catch block, up to the pause
FnRejects ==
    /\ UNCHANGED <<execVars, loopVars, reuseVars, libVars, serviceVars>>
    /\ rpc = "calling"
    /\ \E e \in {"transient", "fatal"} :
          /\ fnCalls' = Append(fnCalls, [ok |-> FALSE, value |-> e])
          /\ retryLastError' = e
          /\ IF GivesUpOn(retryIf, e) \/ LastAttempt(retryAttempt, maxAttempts)
             THEN /\ rpc' = "rejected"
                  /\ retrySettled' = [kind |-> "rejected", value |-> e]
                  /\ UNCHANGED delay
             ELSE /\ rpc' = "waiting"
                  /\ delay' = BackoffDelay(backoff, retryAttempt)
                  /\ UNCHANGED retrySettled
    /\ UNCHANGED <<maxAttempts, backoff, retryIf, retryAttempt>>

\* await new Promise(resolve => setTimeout(resolve, delay)), then attempt++
\* and the loop head
PauseElapses ==
    /\ UNCHANGED <<execVars, loopVars, reuseVars, libVars, serviceVars>>
    /\ rpc = "waiting"
    /\ UNCHANGED <<maxAttempts, backoff, retryIf, retryLastError, fnCalls>>
    /\ IF delay > 1
       THEN /\ delay' = delay - 1
            /\ UNCHANGED <<rpc, retryAttempt, retrySettled>>
       ELSE /\ delay' = 0
            /\ retryAttempt' = retryAttempt + 1
            /\ LoopHead(retryAttempt + 1)

\* ------------------------------------------------------- ToolRegistry
ToolNames == {"t1", "t2", "t3"}
ServerNames == {"s1", "s2"}

NoTool == [name |-> "", description |-> "", serverName |-> ""]

NoBound == [key |-> "", found |-> FALSE, tool |-> NoTool]

Event(kind, tool) == [event |-> kind, tool |-> tool]

\* where the Map keeps the entry of a key: 0 when it has none
RECURSIVE KeyIndex(_, _)
KeyIndex(m, key) ==
    IF m = <<>> THEN 0
    ELSE IF m[Len(m)].name = key /\ KeyIndex(SubSeq(m, 1, Len(m) - 1), key) = 0
         THEN Len(m)
         ELSE KeyIndex(SubSeq(m, 1, Len(m) - 1), key)

\* this.tools.has(name)
Has(m, key) == KeyIndex(m, key) # 0

\* this.tools.get(name)
Get(m, key) == IF Has(m, key) THEN m[KeyIndex(m, key)] ELSE NoTool

\* every register adds an entry of its own
MapSet_Append(m, tool) == Append(m, tool)

\* this.tools.set(tool.name, registeredTool): the entry of a known key is
\* replaced where it is, a new key goes to the end
MapSet(m, tool) ==
    IF Has(m, tool.name)
    THEN [m EXCEPT ![KeyIndex(m, tool.name)] = tool]
    ELSE Append(m, tool)

\* this.tools.delete(name)
MapDelete(m, key) ==
    IF Has(m, key)
    THEN SubSeq(m, 1, KeyIndex(m, key) - 1)
         \o SubSeq(m, KeyIndex(m, key) + 1, Len(m))
    ELSE m

\* every tool is taken for one of the server
OfServer_Any(tool, s) == TRUE

\* tool.serverName === serverName
OfServer(tool, s) == tool.serverName = s

\* the loop of unregisterServer over this.tools.entries(): rest are the
\* entries not yet visited, m the Map and ev the events so far
RECURSIVE UnregisterLoop(_, _, _, _)
UnregisterLoop(rest, s, m, ev) ==
    IF rest = <<>> THEN [tools |-> m, emitted |-> ev]
    ELSE IF OfServer(Head(rest), s)
         THEN UnregisterLoop(Tail(rest), s, MapDelete(m, Head(rest).name),
                             Append(ev, Event("removed", Head(rest))))
         ELSE UnregisterLoop(Tail(rest), s, m, ev)

\* one binding of the generated table: the key it is stored under and
\* the tool name its closure hands to callTool
\* tools[tool.name] = async (input) => this.orchestrator.callTool(tool.name,
\* input)
\* APIGenerator.generateToolsAPI over this.orchestrator.tools.list()
RECURSIVE generateToolsAPI(_, _)
generateToolsAPI(list, table) ==
    IF list = <<>> THEN table
    ELSE generateToolsAPI(
             Tail(list),
             {b \in table : b.key # Head(list).name}
             \cup {[key |-> Head(list).name, callee |-> Head(list).name]})

\* ToolRegistry.register(serverName, tool)
Register ==
    /\ UNCHANGED <<execVars, loopVars, reuseVars, retryVars, snippetVars,
                   sequenceVars, extractVars, typeVars, serviceVars>>
    /\ \E s \in ServerNames, n \in ToolNames, d \in {"d1", "d2"} :
          LET registeredTool ==
                [name |-> n, description |-> d, serverName |-> s]
          IN  /\ tools' = MapSet(tools, registeredTool)
              /\ emitted' = <<Event("added", registeredTool)>>
              /\ lastRegistered' = [lastRegistered EXCEPT ![n] = registeredTool]
    /\ bound' = NoBound

\* ToolRegistry.unregister(toolName)
Unregister ==
    /\ UNCHANGED <<execVars, loopVars, reuseVars, retryVars, snippetVars,
                   sequenceVars, extractVars, typeVars, serviceVars>>
    /\ \E n \in ToolNames :
          IF Has(tools, n)
          THEN /\ tools' = MapDelete(tools, n)
               /\ emitted' = <<Event("removed", Get(tools, n))>>
               /\ lastRegistered' = [lastRegistered EXCEPT ![n] = NoTool]
          ELSE /\ UNCHANGED <<tools, lastRegistered>>
               /\ emitted' = <<>>
    /\ bound' = NoBound

\* ToolRegistry.unregisterServer(serverName) for server s
UnregisterServer(s) ==
    LET after == UnregisterLoop(tools, s, tools, <<>>) IN
    /\ UNCHANGED <<execVars, loopVars, reuseVars, retryVars, snippetVars,
                   sequenceVars, extractVars, typeVars, serviceVars>>
    /\ bound' = NoBound
    /\ tools' = after.tools
    /\ emitted' = after.emitted
    /\ lastRegistered' =
          [n \in ToolNames |->
              IF lastRegistered[n].serverName = s
              THEN NoTool ELSE lastRegistered[n]]

\* ToolRegistry.clear()
Clear ==
    /\ UNCHANGED <<execVars, loopVars, reuseVars, retryVars, snippetVars,
                   sequenceVars, extractVars, typeVars, serviceVars>>
    /\ tools' = <<>>
    /\ emitted' = <<Event("cleared", NoTool)>>
    /\ lastRegistered' = [n \in ToolNames |-> NoTool]
    /\ bound' = NoBound

\* executeCode builds the binding table and code calls one of its
\* bindings: callTool looks the name up in the registry
CallBinding ==
    /\ UNCHANGED <<execVars, loopVars, reuseVars, retryVars, snippetVars,
                   sequenceVars, extractVars, typeVars, serviceVars>>
    /\ \E b \in generateToolsAPI(tools, {}) :
          bound' = [key |-> b.key, found |-> Has(tools, b.callee),
                    tool |-> Get(tools, b.callee)]
    /\ UNCHANGED <<tools, emitted, lastRegistered>>

\* ------------------------------------------------------ SnippetManager
\* snippet names, a name being its characters
SnippetNames ==
    { <<"a">>, <<"A">>, <<"a", " ">>, <<"a", "_">>, <<"b">> }

\* String.prototype.toLowerCase on one character
ToLowerCase(ch) ==
    CASE ch = "A" -> "a"
      [] ch = "B" -> "b"
      [] OTHER -> ch

\* name.replace(/[^a-zA-Z0-9_-]/g, '_').toLowerCase()
sanitizeName(name) ==
    [i \in 1..Len(name) |->
        ToLowerCase(IF name[i] \in {"a", "b", "A", "B", "_", "-"}
                    THEN name[i] ELSE "_")]

\* `${this.sanitizeName(name)}.json`
FileNameOf(name) == sanitizeName(name) \o <<".json">>

NoSnippet == [name |-> <<>>, code |-> ""]

NoGet == [asked |-> FALSE, name |-> <<>>, result |-> NoSnippet]

\* SnippetManager.saveSnippet(snippet)
SaveSnippet ==
    /\ UNCHANGED <<execVars, loopVars, reuseVars, retryVars, registryVars,
                   sequenceVars, extractVars, typeVars, serviceVars>>
    /\ \E n \in SnippetNames, c \in {"c1", "c2"} :
          LET snippet == [name |-> n, code |-> c] IN
          \* fs.writeFile(filePath, JSON.stringify(snippet, null, 2))
          /\ files' = [files EXCEPT ![FileNameOf(n)] =
                                     [exists |-> TRUE, text |-> snippet]]
          /\ saved' = [saved EXCEPT ![n] = snippet]
    /\ snippetGot' = NoGet

\* SnippetManager.getSnippet(name): null when the file is not there
GetSnippet ==
    /\ UNCHANGED <<execVars, loopVars, reuseVars, retryVars, registryVars,
                   sequenceVars, extractVars, typeVars, serviceVars>>
    /\ \E n \in SnippetNames :
          snippetGot' =
             [asked |-> TRUE, name |-> n,
              result |-> IF files[FileNameOf(n)].exists
                         THEN files[FileNameOf(n)].text ELSE NoSnippet]
    /\ UNCHANGED <<files, saved>>

\* SnippetManager.deleteSnippet(name)
DeleteSnippet ==
    /\ UNCHANGED <<execVars, loopVars, reuseVars, retryVars, registryVars,
                   sequenceVars, extractVars, typeVars, serviceVars>>
    /\ \E n \in SnippetNames :
          /\ files' = [files EXCEPT ![FileNameOf(n)] =
                                     [exists |-> FALSE, text |-> NoSnippet]]
          /\ saved' = [saved EXCEPT ![n] = NoSnippet]
    /\ snippetGot' = NoGet

\* ----------------------------------------------------------- sequence

\* every step is handed the initial context
StepInput_Initial(previous, initial) == initial

\* step(context)
StepInput(previous, initial) == previous

\* the loop head of sequence at step i with context c: call the step, or
\* return context when the list is done
SequenceLoop(i, c, calls) ==
    IF i <= Len(steps')
    THEN /\ stepCalls' =
              Append(calls, [step |-> steps'[i],
                             input |-> StepInput(c, initialContext'),
                             ok |-> FALSE, value |-> ""])
         /\ sequenceSettled' = ([kind |-> "pending", value |-> ""])
    ELSE /\ stepCalls' = calls
         /\ sequenceSettled' = [kind |-> "resolved", value |-> c]

\* sequence(steps, initialContext) up to the first await
Sequence ==
    /\ UNCHANGED <<execVars, loopVars, reuseVars, retryVars, registryVars,
                   snippetVars, extractVars, typeVars, serviceVars>>
    /\ sequenceSettled.kind # "pending"
    /\ \E n \in 0..MaxSteps :
          steps' = SubSeq(<<"step1", "step2", "step3", "step4">>, 1, n)
    /\ initialContext' \in {"i1", "i2"}
    /\ context' = initialContext'
    /\ stepAt' = 1
    /\ SequenceLoop(1, context', <<>>)

\* context = await step(context), up to the next await
StepResolves ==
    /\ UNCHANGED <<execVars, loopVars, reuseVars, retryVars, registryVars,
                   snippetVars, extractVars, typeVars, serviceVars>>
    /\ sequenceSettled.kind = "pending"
    /\ UNCHANGED <<steps, initialContext>>
    /\ \E v \in {"v1", "v2", "v3"} :
          /\ context' = v
          /\ stepAt' = stepAt + 1
          /\ SequenceLoop(stepAt + 1, v,
                          [stepCalls EXCEPT ![stepAt].ok = TRUE,
                                            ![stepAt].value = v])

\* the awaited step rejects: sequence rejects with its error
StepRejects ==
    /\ UNCHANGED <<execVars, loopVars, reuseVars, retryVars, registryVars,
                   snippetVars, extractVars, typeVars, serviceVars>>
    /\ sequenceSettled.kind = "pending"
    /\ \E e \in {"e1", "e2"} :
          /\ sequenceSettled' = [kind |-> "rejected", value |-> e]
          /\ stepCalls' = [stepCalls EXCEPT ![stepAt].value = e]
    /\ UNCHANGED <<steps, initialContext, context, stepAt>>

\* ------------------------------------------- extractCodeFromResponse

RECURSIVE AnswersOfLength(_)
AnswersOfLength(n) ==
    IF n = 0 THEN {<<>>}
    ELSE {Append(r, l) :
             r \in AnswersOfLength(n - 1),
             l \in {Prose, Blank, FenceOpen, FenceClose,
                    S("fence", "python"), S("return", "42")}}

\* extractCodeFromResponse(response), called once: it keeps nothing from
\* one call to the next
ExtractCode ==
    /\ UNCHANGED <<execVars, loopVars, reuseVars, retryVars, registryVars,
                   snippetVars, sequenceVars, typeVars, serviceVars>>
    /\ response = <<>>
    /\ response' \in (UNION {AnswersOfLength(n) : n \in 1..MaxAnswerLines})
    /\ extracted' = extractCodeFromResponse(response')

\* ------------------------------------------------ schemaToTypeScript
\* a property schema: its type ("" when it has none), its enum (<<>> when
\* it has none) and its items ({} when it has none)
PropertySchema(type, enum, items) ==
    [type |-> type, enum |-> enum, items |-> items]

LeafSchemas ==
    {PropertySchema(t, <<>>, {}) :
        t \in {"string", "number", "integer", "boolean", "array", "object",
               "null", ""}}
    \cup {PropertySchema("string", e, {}) : e \in {<<"a">>, <<"a", "b">>}}

RECURSIVE SchemasOfDepth(_)
SchemasOfDepth(d) ==
    IF d = 0 THEN LeafSchemas
    ELSE LeafSchemas
         \cup {PropertySchema("array", <<>>, {s}) :
                  s \in SchemasOfDepth(d - 1)}

ItemsOf(s) == CHOOSE i \in s.items : TRUE

\* schema.enum.map(v => `'${v}'`).join(' | ')
RECURSIVE JoinLiterals(_)
JoinLiterals(enum) ==
    IF Len(enum) = 1 THEN <<"'", enum[1], "'">>
    ELSE <<"'", enum[1], "'", "|">> \o JoinLiterals(Tail(enum))

\* APIGenerator.jsonSchemaTypeToTS: the text of the type, as tokens
RECURSIVE jsonSchemaTypeToTS(_)
jsonSchemaTypeToTS(s) ==
    IF s.type = "" THEN <<"any">>
    ELSE CASE s.type = "string" ->
                IF s.enum # <<>> THEN JoinLiterals(s.enum) ELSE <<"string">>
           [] s.type \in {"number", "integer"} -> <<"number">>
           [] s.type = "boolean" -> <<"boolean">>
           [] s.type = "array" ->
                (IF s.items # {} THEN jsonSchemaTypeToTS(ItemsOf(s))
                 ELSE <<"any">>) \o <<"[]">>
           [] s.type = "object" -> <<"Record<string, any>">>
           [] OTHER -> <<"any">>

\* schemaToTypeScript(schema, typeName) for a schema with one property
SchemaToTypeScript ==
    /\ UNCHANGED <<execVars, loopVars, reuseVars, retryVars, registryVars,
                   snippetVars, sequenceVars, extractVars, serviceVars>>
    /\ \E p \in {"p", "q"}, s \in SchemasOfDepth(MaxSchemaDepth),
          r \in SUBSET {"p", "q"} :
          /\ schema' = [property |-> p, of |-> s, required |-> r]
          \* `  ${propName}${optional}: ${type};`
          /\ generated' = [name |-> p, optional |-> IF p \in r THEN "" ELSE "?",
                            type |-> jsonSchemaTypeToTS(s)]

\* ------------------------------------------- SamplingSecurityManager
\* the rate-limit windows; a window of the tracker is over when more than
\* its length has passed since its start (60000, 3600000 and 86400000 ms,
\* scaled to 1, 2 and 3 units of the clock)
WindowLength == [minute |-> 1, hour |-> 2, day |-> 3]

\* getRateLimitStatus(origin): the tracker of the origin, a new one when it
\* has none, with the counters of the windows that are over set back
getRateLimitStatus(origin) ==
    LET tracker == IF origin \in DOMAIN rateLimits THEN rateLimits[origin]
                   ELSE [count |-> [w \in DOMAIN WindowLength |-> 0],
                         start |-> [w \in DOMAIN WindowLength |-> now]]
        over == {w \in DOMAIN WindowLength :
                    now - tracker.start[w] > WindowLength[w]}
    IN  [count |-> [w \in DOMAIN WindowLength |->
                       IF w \in over THEN 0 ELSE tracker.count[w]],
         start |-> [w \in DOMAIN WindowLength |->
                       IF w \in over THEN now ELSE tracker.start[w]]]

\* a counter that has just reached its limit still lets a request through
checkRateLimitValues_Inclusive(tracker, config) ==
    [w \in DOMAIN WindowLength |-> tracker.count[w] <= config[w]]

\* checkRateLimitValues(tracker, config)
checkRateLimitValues(tracker, config) ==
    [w \in DOMAIN WindowLength |-> tracker.count[w] < config[w]]

\* new SamplingSecurityManager({defaultRateLimit})
NewSecurityManager ==
    /\ UNCHANGED <<execVars, loopVars, reuseVars, retryVars, libVars,
                   bridgeVars, sampling, orchestratorVars>>
    /\ rateConfig = <<>>
    /\ rateConfig' \in [DOMAIN WindowLength -> 1..MaxLimit]
    /\ UNCHANGED <<now, rateLimits, approvals, admitted, lastRequest>>

\* requestApproval(request, options, context): the rate limit first, then
\* (no policy is installed) either the automatic approval or the queue, the
\* timeout timer and the first checkApproval
RequestApproval ==
    /\ UNCHANGED <<execVars, loopVars, reuseVars, retryVars, libVars,
                   bridgeVars, sampling, orchestratorVars>>
    /\ rateConfig # <<>>
    /\ lastRequest.number < MaxRequests
    /\ \E origin \in {"o1", "unknown"},
          requireApproval \in {FALSE} \cup {Len(approvals) < MaxApprovals} :
          LET tracker == getRateLimitStatus(origin)
              canProceed == checkRateLimitValues(tracker, rateConfig)
              proceeds == \A w \in DOMAIN WindowLength : canProceed[w]
              counted == [tracker EXCEPT
                            !.count = [w \in DOMAIN WindowLength |-> @[w] + 1]]
              after == IF proceeds THEN counted ELSE tracker
          IN  /\ rateLimits' =
                    [o \in DOMAIN rateLimits \cup {origin} |->
                        IF o = origin THEN after ELSE rateLimits[o]]
              /\ lastRequest' =
                    [number |-> lastRequest.number + 1, origin |-> origin,
                     arrival |-> tracker.count, rejected |-> ~proceeds]
              /\ admitted' =
                    IF proceeds
                    THEN Append(admitted, [origin |-> origin, at |-> now])
                    ELSE admitted
              /\ approvals' =
                    IF proceeds /\ requireApproval
                    THEN Append(approvals,
                                [queued |-> TRUE, status |-> "pending",
                                 timer |-> "armed", polling |-> TRUE,
                                 settled |-> "none", decision |-> "none"])
                    ELSE approvals
    /\ UNCHANGED <<now, rateConfig>>

\* approveRequest(approvalId) and rejectRequest(approvalId) for an id that
\* is in the queue: the status of the entry is set, whatever it was
DecideRequest ==
    /\ UNCHANGED <<execVars, loopVars, reuseVars, retryVars, libVars,
                   bridgeVars, sampling, orchestratorVars>>
    /\ \E id \in 1..Len(approvals), status \in {"approved", "rejected"} :
          /\ approvals[id].queued
          /\ approvals' =
                [approvals EXCEPT
                    ![id].status = status,
                    ![id].decision =
                        IF approvals[id].status = "pending" THEN status
                        ELSE @]
    /\ UNCHANGED <<now, rateConfig, rateLimits, admitted, lastRequest>>

\* the promise of a requestApproval call takes the first value it is
\* resolved with
Resolve(entry, value) == IF entry.settled = "none" THEN value ELSE entry.settled

\* checkApproval, run by the timer of the previous one
CheckApproval ==
    /\ UNCHANGED <<execVars, loopVars, reuseVars, retryVars, libVars,
                   bridgeVars, sampling, orchestratorVars>>
    /\ \E id \in 1..Len(approvals) :
          LET e == approvals[id] IN
          /\ e.polling
          /\ approvals' =
                [approvals EXCEPT ![id] =
                    IF ~e.queued
                    THEN [e EXCEPT !.timer = IF @ = "armed" THEN "cleared"
                                             ELSE @,
                                   !.settled = Resolve(e, "Cancelled"),
                                   !.polling = FALSE]
                    ELSE IF e.status = "pending" THEN e
                    ELSE [e EXCEPT !.timer = IF @ = "armed" THEN "cleared"
                                             ELSE @,
                                   !.queued = FALSE,
                                   !.settled = Resolve(e, e.status)]]
          /\ approvals' # approvals
    /\ UNCHANGED <<now, rateConfig, rateLimits, admitted, lastRequest>>

\* the timeout timer of a requestApproval call fires
ApprovalTimeout ==
    /\ UNCHANGED <<execVars, loopVars, reuseVars, retryVars, libVars,
                   bridgeVars, sampling, orchestratorVars>>
    /\ \E id \in 1..Len(approvals) :
          /\ approvals[id].timer = "armed"
          /\ approvals' =
                [approvals EXCEPT
                    ![id].timer = "fired",
                    ![id].queued = FALSE,
                    ![id].settled = Resolve(approvals[id], "Timeout")]
    /\ UNCHANGED <<now, rateConfig, rateLimits, admitted, lastRequest>>

\* Date.now() moves on
ClockAdvances ==
    /\ UNCHANGED <<execVars, loopVars, reuseVars, retryVars, libVars,
                   bridgeVars, sampling, orchestratorVars>>
    /\ rateConfig # <<>>
    /\ now < MaxNow
    /\ now' = now + 1
    /\ UNCHANGED <<rateConfig, rateLimits, approvals, admitted, lastRequest>>

\* ------------------------------------------------------ BridgeExecutor
\* eventBus.publish({kind, taskId, status: {state}, final})
Published(kind, taskId, state, final) ==
    [kind |-> kind, taskId |-> taskId, state |-> state, final |-> final]

\* BridgeExecutor.execute(ctx, eventBus) up to the call of the handler, and
\* to its end when no skill is configured
Execute ==
    /\ UNCHANGED <<execVars, loopVars, reuseVars, retryVars, libVars,
                   securityVars, sampling, orchestratorVars>>
    /\ \E taskId \in {"t1", "t2"}, task \in BOOLEAN,
          handler \in {"default", "skill", "none"} :
          LET first == (IF task THEN <<>>
                        ELSE <<Published("task", taskId, "submitted", FALSE)>>)
                       \o <<Published("status-update", taskId, "working",
                                      FALSE)>>
          IN  /\ bpc[taskId] = "idle"
              /\ IF handler = "none"
                 THEN /\ events' =
                            events \o first
                            \o <<Published("status-update", taskId, "failed",
                                           TRUE)>>
                      /\ finishedCalls' =
                            [finishedCalls EXCEPT ![taskId] = @ + 1]
                      /\ bpc' = [bpc EXCEPT ![taskId] = "done"]
                 ELSE /\ events' = events \o first
                      /\ bpc' = [bpc EXCEPT ![taskId] = "handling"]
                      /\ UNCHANGED finishedCalls

\* the handler resolves (artifact-update, completed) or rejects (failed);
\* then finally eventBus.finished()
HandlerSettles ==
    /\ UNCHANGED <<execVars, loopVars, reuseVars, retryVars, libVars,
                   securityVars, sampling, orchestratorVars>>
    /\ \E taskId \in {"t1", "t2"}, resolves \in BOOLEAN :
          /\ bpc[taskId] = "handling"
          /\ events' =
                events
                \o IF resolves
                   THEN <<Published("artifact-update", taskId, "", FALSE),
                          Published("status-update", taskId, "completed",
                                    TRUE)>>
                   ELSE <<Published("status-update", taskId, "failed", TRUE)>>
          /\ finishedCalls' = [finishedCalls EXCEPT ![taskId] = @ + 1]
          /\ bpc' = [bpc EXCEPT ![taskId] = "done"]

\* BridgeExecutor.cancelTask(taskId, eventBus) while execute awaits the
\* handler
CancelTask ==
    /\ UNCHANGED <<execVars, loopVars, reuseVars, retryVars, libVars,
                   securityVars, sampling, orchestratorVars>>
    /\ \E taskId \in {"t1", "t2"} :
          /\ bpc[taskId] = "handling"
          /\ Cardinality({i \in 1..Len(events) :
                             /\ events[i].taskId = taskId
                             /\ events[i].state = "canceled"}) < MaxCancels
          /\ events' =
                Append(events,
                       Published("status-update", taskId, "canceled", TRUE))
          /\ finishedCalls' = [finishedCalls EXCEPT ![taskId] = @ + 1]
          /\ UNCHANGED bpc

\* ----------------------------------------------------- MCPOrchestrator
\* const maxRetries = options?.maxRetries ?? 2
DefaultMaxRetries == 2

\* connect(): connectToServer is started for every configured server and
\* runs to its first await, client.connect(transport); a config without
\* command and url throws before it
Connect ==
    /\ UNCHANGED <<execVars, loopVars, reuseVars, retryVars, snippetVars,
                   sequenceVars, extractVars, typeVars, securityVars,
                   bridgeVars, sampling>>
    /\ \A s \in ServerNames : cpc[s] = "none"
    /\ \E invalid \in SUBSET ServerNames :
          cpc' = [s \in ServerNames |->
                    IF s \in invalid THEN "failed" ELSE "connecting"]
    /\ UNCHANGED <<registryVars, clients, closed, dpc, apiContext,
                   attemptTools>>

\* await client.connect(transport) settles: this.clients.set(name, client),
\* the sampling capabilities, then the call of client.listTools()
ClientConnects ==
    /\ UNCHANGED <<execVars, loopVars, reuseVars, retryVars, snippetVars,
                   sequenceVars, extractVars, typeVars, securityVars,
                   bridgeVars, sampling>>
    /\ \E s \in ServerNames, connected \in BOOLEAN :
          /\ cpc[s] = "connecting"
          /\ IF connected
             THEN /\ clients' = Append(clients, s)
                  /\ cpc' = [cpc EXCEPT ![s] = "discovering"]
             ELSE /\ cpc' = [cpc EXCEPT ![s] = "failed"]
                  /\ UNCHANGED clients
    /\ UNCHANGED <<registryVars, closed, dpc, apiContext, attemptTools>>

\* discoverToolsForServer: await client.listTools() settles and every tool
\* of the result is registered; a rejection is logged. The request of a
\* client whose close() has settled is rejected.
ListToolsSettles ==
    /\ UNCHANGED <<execVars, loopVars, reuseVars, retryVars, snippetVars,
                   sequenceVars, extractVars, typeVars, securityVars,
                   bridgeVars, sampling>>
    /\ \E s \in ServerNames, listed \in BOOLEAN, n \in {"t1", "t2"} :
          LET registeredTool ==
                [name |-> n, description |-> "d1", serverName |-> s]
          IN  /\ cpc[s] = "discovering"
              /\ s \in closed => ~listed
              /\ cpc' = [cpc EXCEPT ![s] = "connected"]
              /\ IF listed
                 THEN /\ tools' = MapSet(tools, registeredTool)
                      /\ emitted' = <<Event("added", registeredTool)>>
                      /\ lastRegistered' =
                            [lastRegistered EXCEPT ![n] = registeredTool]
                      /\ bound' = NoBound
                 ELSE UNCHANGED registryVars
    /\ UNCHANGED <<clients, closed, dpc, apiContext, attemptTools>>

\* the end of disconnect: this.clients.clear(); this.tools.clear()
DisconnectEnd ==
    /\ clients' = <<>>
    /\ tools' = <<>>
    /\ emitted' = <<Event("cleared", NoTool)>>
    /\ lastRegistered' = [n \in ToolNames |-> NoTool]
    /\ bound' = NoBound
    /\ dpc' = [pc |-> "resolved", at |-> 0]

\* disconnect() up to its first await, the close() of the first client
Disconnect ==
    /\ UNCHANGED <<execVars, loopVars, reuseVars, retryVars, snippetVars,
                   sequenceVars, extractVars, typeVars, securityVars,
                   bridgeVars, sampling>>
    /\ dpc.pc = "idle"
    /\ \E s \in ServerNames : cpc[s] # "none"
    /\ IF clients = <<>>
       THEN DisconnectEnd
       ELSE /\ dpc' = [pc |-> "closing", at |-> 1]
            /\ UNCHANGED <<registryVars, clients>>
    /\ UNCHANGED <<cpc, closed, apiContext, attemptTools>>

\* await client.close() settles: unregisterServer(name) unless it threw,
\* then the next entry of this.clients, one added meanwhile included
CloseSettles ==
    /\ UNCHANGED <<execVars, loopVars, reuseVars, retryVars, snippetVars,
                   sequenceVars, extractVars, typeVars, securityVars,
                   bridgeVars, sampling>>
    /\ dpc.pc = "closing"
    /\ \E threw \in BOOLEAN :
          LET name == clients[dpc.at]
              after == IF threw THEN [tools |-> tools, emitted |-> emitted]
                       ELSE UnregisterLoop(tools, name, tools, <<>>)
              gone == [n \in ToolNames |->
                         IF ~threw /\ lastRegistered[n].serverName = name
                         THEN NoTool ELSE lastRegistered[n]]
          IN  /\ closed' = closed \cup {name}
              /\ IF dpc.at < Len(clients)
                 THEN /\ tools' = after.tools
                      /\ emitted' = after.emitted
                      /\ lastRegistered' = gone
                      /\ bound' = NoBound
                      /\ dpc' = [dpc EXCEPT !.at = @ + 1]
                      /\ UNCHANGED clients
                 ELSE DisconnectEnd
    /\ UNCHANGED <<cpc, apiContext, attemptTools>>

\* generateAndExecute: const apiContext =
\* this.apiGenerator.generateTypeDefinitions(), one signature per tool of
\* this.orchestrator.tools.list()
GenerateTypeDefinitions ==
    /\ UNCHANGED <<execVars, loopVars, reuseVars, retryVars, snippetVars,
                   sequenceVars, extractVars, typeVars, securityVars,
                   bridgeVars, sampling>>
    /\ ~apiContext.read
    /\ apiContext' = [read |-> TRUE,
                      names |-> {tools[i].name : i \in DOMAIN tools}]
    /\ UNCHANGED <<registryVars, clients, cpc, closed, dpc, attemptTools>>

\* an attempt of generateAndExecute: executeCode calls
\* this.apiGenerator.generateToolsAPI() for its sandbox
BindToolsAPI ==
    /\ UNCHANGED <<execVars, loopVars, reuseVars, retryVars, snippetVars,
                   sequenceVars, extractVars, typeVars, securityVars,
                   bridgeVars, sampling>>
    /\ apiContext.read
    /\ Len(attemptTools) <= DefaultMaxRetries
    /\ attemptTools' =
          Append(attemptTools, {b.key : b \in generateToolsAPI(tools, {})})
    /\ UNCHANGED <<registryVars, clients, cpc, closed, dpc, apiContext>>

\* ------------------------------------------------------ SamplingClient
DefaultMaxIterations == 5

\* extractToolUseContent(content): JSON.parse(content).toolUse || null; text
\* that does not parse gives null; an array, also an empty one, is truthy
extractToolUseContent(content) ==
    IF content.parses /\ content.hasToolUse
    THEN [null |-> FALSE, toolUse |-> content.toolUse]
    ELSE [null |-> TRUE, toolUse |-> <<>>]

\* executeTools(toolUseContent): one result per tool use, in order; a
\* callTool that throws is caught and gives an error result
executeTools(toolUseContent) ==
    [k \in DOMAIN toolUseContent |->
        [toolUseId |-> k, isError |-> toolUseContent[k].throws]]

\* createMessageWithTools(request, options) up to the first request, with
\* const maxIterations = options?.maxRetries || 5 (option 0 stands for an
\* absent one as well: both are falsy)
CreateMessageWithTools ==
    /\ UNCHANGED <<execVars, loopVars, reuseVars, retryVars, libVars,
                   securityVars, bridgeVars, orchestratorVars>>
    /\ sampling.pc = "idle"
    /\ \E samplingTools \in BOOLEAN, option \in 0..MaxIterationsOption :
          sampling' =
            IF ~samplingTools
            THEN [sampling EXCEPT !.pc = "threw",
                                  !.error = "SamplingCapabilityError"]
            ELSE [sampling EXCEPT !.pc = "loop",
                                  !.maxIterations =
                                      IF option = 0
                                      THEN DefaultMaxIterations
                                      ELSE option]

\* one turn of the for loop of handleToolLoop, and the throw after it
HandleToolLoop ==
    /\ UNCHANGED <<execVars, loopVars, reuseVars, retryVars, libVars,
                   securityVars, bridgeVars, orchestratorVars>>
    /\ sampling.pc = "loop"
    /\ IF sampling.i < sampling.maxIterations
       THEN \E answered \in BOOLEAN, parses \in BOOLEAN, hasToolUse \in BOOLEAN,
               n \in 0..MaxToolUses :
              \E calls \in [1..n -> [throws : BOOLEAN]] :
                LET content == [parses |-> parses,
                                hasToolUse |-> parses /\ hasToolUse,
                                toolUse |-> IF parses /\ hasToolUse
                                            THEN calls ELSE <<>>]
                    toolUseContent == extractToolUseContent(content)
                    sent == [sampling EXCEPT !.requests = @ + 1]
                IN  /\ (~parses \/ ~hasToolUse) => n = 0
                    /\ ~parses => ~hasToolUse
                    /\ ~answered => ~parses
                    /\ sampling' =
                          IF ~answered
                          THEN [sent EXCEPT !.pc = "threw",
                                            !.error = "SamplingCapabilityError"]
                          ELSE IF toolUseContent.null
                          THEN [sent EXCEPT !.pc = "returned",
                                            !.result = <<content>>]
                          ELSE [sent EXCEPT
                                  !.i = @ + 1,
                                  !.messages =
                                      @ \o <<[response |-> content,
                                              toolResults |->
                                                executeTools(
                                                  toolUseContent.toolUse)]>>]
       ELSE sampling' =
              [sampling EXCEPT
                 !.pc = "threw",
                 !.error = "Tool loop exceeded maximum iterations"]

\* ----------------------------------------------------- the repair loop
vars == <<execVars, loopVars, reuseVars, retryVars, libVars, serviceVars>>

\* options?.maxRetries ?? 2
MaxRetriesOf(opt) == IF opt.set THEN opt.v ELSE DefaultMaxRetries

Undefined == << <<"undefined">> >>

NoReturn == [result |-> NoOutcome, code |-> <<>>]

NoThrow == [kind |-> "none", retries |-> 0, last |-> <<>>]

\* for (...; attempt <= maxRetries; ...)
LoopCondition(a, m) == a <= m

\* a follow-up generation is also requested after the last attempt
RetriesRemain_OneMore(a, m) == a <= m

\* the follow-up generation is skipped before the last attempt
RetriesRemain_OneLess(a, m) == a < m - 1

\* if (attempt < maxRetries)
RetriesRemain(a, m) == a < m

\* a successful execution is not recognised
Succeeded_Never(result) == FALSE

\* if (result.success)
Succeeded(result) == result.success

\* the error text is left out of the message
ExhaustedError_NoText(m, last) ==
    [kind |-> "exhausted", retries |-> m, last |-> <<>>]

\* new Error(`Code execution failed after ${maxRetries} retries: ${lastError}`)
ExhaustedError(m, last) == [kind |-> "exhausted", retries |-> m, last |-> last]

NoPrompt == [error |-> <<>>, code |-> <<>>]

\* the follow-up prompt goes on quoting the error of the first attempt
FixPrompt_Stale(error, text) ==
    [error |-> IF errors = <<>> THEN error ELSE errors[1], code |-> text]

\* const fixPrompt = `The previous code failed with this error:
\* ${result.error} Previous code: ${code} ...`
FixPrompt(error, text) == [error |-> error, code |-> text]

LoopInit ==
    /\ codeResponse = <<>>
    /\ fixPrompt = NoPrompt
    /\ gpc = "idle"
    /\ maxRetries = 0
    /\ loopTimeout = 1
    /\ attempt = 0
    /\ code = <<>>
    /\ lastError = Undefined
    /\ ret = NoReturn
    /\ thrownError = NoThrow
    /\ genCalls = 0
    /\ execCalls = 0
    /\ execOf = <<>>
    /\ attemptOk = <<>>
    /\ errors = <<>>

\* a call that is not generateAndExecute leaves no run of the loop behind
LoopReset ==
    /\ codeResponse' = <<>>
    /\ fixPrompt' = NoPrompt
    /\ gpc' = "idle"
    /\ maxRetries' = 0
    /\ loopTimeout' = 1
    /\ attempt' = 0
    /\ code' = <<>>
    /\ lastError' = Undefined
    /\ ret' = NoReturn
    /\ thrownError' = NoThrow
    /\ genCalls' = 0
    /\ execCalls' = 0
    /\ execOf' = <<>>
    /\ attemptOk' = <<>>
    /\ errors' = <<>>

Init ==
    /\ ExecInit
    /\ LoopInit
    \* this.consoleOutput = [] of the constructor
    /\ heap = << <<>> >>
    /\ current = 1
    /\ runs = <<>>
    /\ rpc = "idle"
    /\ maxAttempts = 1
    /\ backoff = "linear"
    /\ retryIf = "none"
    /\ retryAttempt = 0
    /\ retryLastError = "undefined"
    /\ delay = 0
    /\ fnCalls = <<>>
    /\ retrySettled = NoSettle
    \* new ToolRegistry()
    /\ tools = <<>>
    /\ emitted = <<>>
    /\ bound = NoBound
    /\ lastRegistered = [n \in ToolNames |-> NoTool]
    \* new SnippetManager(storagePath), the directory empty
    /\ files = [f \in {FileNameOf(n) : n \in SnippetNames} |->
                  [exists |-> FALSE, text |-> NoSnippet]]
    /\ saved = [n \in SnippetNames |-> NoSnippet]
    /\ snippetGot = NoGet
    \* sequence not called yet
    /\ steps = <<>>
    /\ stepAt = 0
    /\ initialContext = "i1"
    /\ context = "i1"
    /\ stepCalls = <<>>
    /\ sequenceSettled = [kind |-> "none", value |-> ""]
    \* extractCodeFromResponse not called yet
    /\ response = <<>>
    /\ extracted = <<>>
    \* no SamplingSecurityManager yet
    /\ now = 0
    /\ rateConfig = <<>>
    /\ rateLimits = <<>>
    /\ approvals = <<>>
    /\ admitted = <<>>
    /\ lastRequest = [number |-> 0, origin |-> "",
                      arrival |-> [w \in DOMAIN WindowLength |-> 0],
                      rejected |-> FALSE]
    \* no task handed to the BridgeExecutor yet
    /\ bpc = [t \in {"t1", "t2"} |-> "idle"]
    /\ events = <<>>
    /\ finishedCalls = [t \in {"t1", "t2"} |-> 0]
    \* no server connected, generateAndExecute not called yet
    /\ clients = <<>>
    /\ cpc = [s \in ServerNames |-> "none"]
    /\ closed = {}
    /\ dpc = [pc |-> "idle", at |-> 0]
    /\ apiContext = [read |-> FALSE, names |-> {}]
    /\ attemptTools = <<>>
    \* createMessageWithTools not called yet
    /\ sampling = [pc |-> "idle", maxIterations |-> 0, i |-> 0, requests |-> 0,
                   messages |-> <<>>, result |-> <<>>, error |-> ""]
    \* schemaToTypeScript not called yet
    /\ schema = [property |-> "", of |-> PropertySchema("", <<>>, {}),
                 required |-> {}]
    /\ generated = [name |-> "", optional |-> "", type |-> <<>>]

NoCallInProgress ==
    /\ gpc \in {"idle", "returned", "thrown"}
    /\ execState \in {"idle", "ended"}

\* MCPOrchestrator.executeCode called by a user of the orchestrator
ExecuteCode ==
    /\ UNCHANGED <<reuseVars, retryVars, libVars, serviceVars>>
    /\ NoCallInProgress
    /\ \E c \in Codes, t \in 1..MaxTimeout : StartExecution(c, t, "direct")
    /\ LoopReset

\* generateAndExecute up to the first llm.generate
GenerateAndExecute ==
    /\ UNCHANGED <<reuseVars, retryVars, libVars, serviceVars>>
    /\ NoCallInProgress
    /\ \E opt \in {[set |-> FALSE, v |-> 0]}
                  \cup {[set |-> TRUE, v |-> n] :
                           n \in (-1)..MaxRetriesOption},
          t \in 1..MaxTimeout :
          /\ maxRetries' = MaxRetriesOf(opt)
          /\ loopTimeout' = t
    /\ captureConsole' \in
          {CaptureConsoleOf(o) : o \in {"unset", "true", "false"}}
    /\ gpc' = "generate"
    /\ codeResponse' = <<>>
    /\ fixPrompt' = NoPrompt
    /\ attempt' = 0
    /\ code' = <<>>
    /\ lastError' = Undefined
    /\ ret' = NoReturn
    /\ thrownError' = NoThrow
    /\ genCalls' = 1
    /\ execCalls' = 0
    /\ execOf' = <<>>
    /\ attemptOk' = <<>>
    /\ errors' = <<>>
    /\ execState' = "idle"
    /\ caller' = "none"
    /\ prog' = <<>>
    /\ ip' = 0
    /\ timeout' = 1
    /\ elapsed' = 0
    /\ acc' = "undefined"
    /\ consoleOutput' = <<>>
    /\ outcome' = NoOutcome
    /\ cause' = "none"
    /\ lastRead' = NoRead
    /\ timers' = <<>>
    /\ ctx' = {}
    /\ dispatched' = <<>>
    /\ obs' = NoObs
    /\ UNCHANGED host

\* the loop falls through: throw new Error(...)
ThrowExhausted(last) ==
    /\ gpc' = "thrown"
    /\ thrownError' = ExhaustedError(maxRetries, last)

\* llm.generate resolves: extract the code; the loop head then either runs
\* it or falls through
GenerateResolves ==
    /\ UNCHANGED <<reuseVars, retryVars, libVars, serviceVars>>
    /\ gpc \in {"generate", "fix"}
    /\ \E r \in {<<Blank>> \o g \o <<Blank>> : g \in GeneratedCodes}
               \cup {<<Prose, FenceOpen>> \o g
                     \o <<Blank, FenceClose, Prose>> :
                        g \in GeneratedCodes} :
        LET c == extractCodeFromResponse(r)
            a == IF gpc = "fix" THEN attempt + 1 ELSE attempt
        IN  /\ codeResponse' = r
            /\ code' = c
            /\ attempt' = a
            /\ IF LoopCondition(a, maxRetries)
               THEN /\ StartExecution(c, loopTimeout, "loop")
                    /\ gpc' = "executing"
                    /\ execCalls' = execCalls + 1
                    /\ execOf' = Append(execOf, genCalls)
                    /\ UNCHANGED thrownError
               ELSE /\ ThrowExhausted(lastError)
                    /\ UNCHANGED <<execVars, execCalls, execOf>>
    /\ UNCHANGED <<maxRetries, loopTimeout, lastError, ret, genCalls,
                   attemptOk, errors, fixPrompt>>

\* llm.generate rejects: nothing in generateAndExecute catches it
GenerateRejects ==
    /\ UNCHANGED <<reuseVars, retryVars, libVars, serviceVars>>
    /\ gpc \in {"generate", "fix"}
    /\ gpc' = "thrown"
    /\ thrownError' = [kind |-> "llm", retries |-> 0, last |-> <<>>]
    /\ UNCHANGED <<execVars, maxRetries, loopTimeout, attempt, code,
                   lastError, ret, genCalls, execCalls, execOf, attemptOk,
                   errors, codeResponse, fixPrompt>>

\* await this.executeCode(code, options) settles: the body of the loop,
\* up to the next await
AttemptEnds ==
    /\ UNCHANGED <<reuseVars, retryVars, libVars, serviceVars>>
    /\ gpc = "executing"
    /\ execState = "ended"
    /\ caller = "loop"
    /\ \/ /\ outcome.kind = "rejected"
          /\ gpc' = "thrown"
          /\ thrownError' = [kind |-> "executor", retries |-> 0, last |-> <<>>]
          /\ UNCHANGED <<execVars, attempt, lastError, ret, genCalls,
                         execCalls, execOf, attemptOk, errors, fixPrompt>>
       \/ /\ outcome.kind = "result"
          /\ Succeeded(outcome)
          /\ gpc' = "returned"
          /\ ret' = [result |-> outcome, code |-> code]
          /\ attemptOk' = Append(attemptOk, outcome.success)
          /\ UNCHANGED <<execVars, attempt, lastError, thrownError, genCalls,
                         execCalls, execOf, errors, fixPrompt>>
       \/ /\ outcome.kind = "result"
          /\ ~Succeeded(outcome)
          /\ lastError' = outcome.error
          /\ attemptOk' = Append(attemptOk, outcome.success)
          /\ errors' = Append(errors, outcome.error)
          /\ IF RetriesRemain(attempt, maxRetries)
             THEN /\ gpc' = "fix"
                  /\ fixPrompt' = FixPrompt(outcome.error, code)
                  /\ genCalls' = genCalls + 1
                  /\ UNCHANGED <<execVars, attempt, thrownError, execCalls,
                                 execOf>>
             ELSE /\ attempt' = attempt + 1
                  /\ UNCHANGED <<genCalls, fixPrompt>>
                  /\ IF LoopCondition(attempt + 1, maxRetries)
                     THEN /\ StartExecution(code, loopTimeout, "loop")
                          /\ gpc' = "executing"
                          /\ execCalls' = execCalls + 1
                          /\ execOf' = Append(execOf, genCalls)
                          /\ UNCHANGED thrownError
                     ELSE /\ ThrowExhausted(outcome.error)
                          /\ UNCHANGED <<execVars, execCalls, execOf>>
          /\ UNCHANGED ret
    /\ UNCHANGED <<maxRetries, loopTimeout, code, codeResponse>>

Next ==
    \/ ExecuteCode
    \/ Step
    \/ Settle
    \/ Tick
    \/ WatchdogFires
    \/ TimerFires
    \/ GenerateAndExecute
    \/ GenerateResolves
    \/ GenerateRejects
    \/ AttemptEnds

Spec == Init /\ [][Next]_vars

SpecReuse == Init /\ [][ReuseExecute \/ ReuseStep \/ ReuseSettle]_vars

SpecRegistry ==
    Init /\ [][Register \/ Unregister
                \/ (\E s \in ServerNames : UnregisterServer(s))
                \/ Clear \/ CallBinding]_vars

SpecSnippets == Init /\ [][SaveSnippet \/ GetSnippet \/ DeleteSnippet]_vars

SpecSequence == Init /\ [][Sequence \/ StepResolves \/ StepRejects]_vars

SpecExtract == Init /\ [][ExtractCode]_vars

SpecSecurity ==
    Init /\ [][NewSecurityManager \/ RequestApproval \/ DecideRequest
                \/ CheckApproval \/ ApprovalTimeout \/ ClockAdvances]_vars

SpecBridge == Init /\ [][Execute \/ HandlerSettles \/ CancelTask]_vars

SpecOrchestrator ==
    Init /\ [][Connect \/ ClientConnects \/ ListToolsSettles \/ Disconnect
                \/ CloseSettles \/ GenerateTypeDefinitions
                \/ BindToolsAPI]_vars

SpecSampling == Init /\ [][CreateMessageWithTools \/ HandleToolLoop]_vars

SpecTypes == Init /\ [][SchemaToTypeScript]_vars

SpecRetry == Init /\ [][Retry \/ FnResolves \/ FnRejects \/ PauseElapses]_vars

\* ================================================================ claims
Exhausted == gpc = "thrown" /\ thrownError.kind = "exhausted"

LastOf(seq) == seq[Len(seq)]

C2_SuccessPathCounts ==
    /\ \A i \in 1..Len(execOf) : execOf[i] = i
    /\ Len(execOf) = execCalls
    /\ gpc = "returned" =>
          /\ execCalls >= 1
          /\ execCalls <= 1 + maxRetries
          /\ genCalls = execCalls
          /\ Len(attemptOk) = execCalls
          /\ LastOf(attemptOk)
          /\ \A i \in 1..(Len(attemptOk) - 1) : ~attemptOk[i]
    /\ (Exhausted /\ maxRetries >= 0) => Len(execOf) = genCalls

\* the second code succeeds after the first failed
C2_Witness ==
    gpc = "returned" /\ execCalls = 2 /\ genCalls = 2 /\ maxRetries = 1

\* C3: a success is never retried: only the last execution the loop has
\* seen can be a success, after a success the call has returned, and the
\* value returned is that execution's result with the code text that
\* execution was given.
C3_SuccessNotRetried ==
    /\ \A i \in 1..(Len(attemptOk) - 1) : ~attemptOk[i]
    /\ (attemptOk # <<>> /\ LastOf(attemptOk)) => gpc = "returned"
    /\ gpc = "returned" =>
          /\ ret.result = outcome
          /\ ret.result.success
          /\ ret.code = prog
          /\ execState = "ended"

\* a success with retries left over
C3_Witness ==
    gpc = "returned" /\ execCalls = 1 /\ maxRetries = DefaultMaxRetries
    /\ ret.code = Code.AwaitReturn

Ended == execState = "ended"

Failed == Ended /\ outcome.kind = "result" /\ ~outcome.success

\* C4: CodeExecutor.execute never throws: whatever the code does, the
\* promise execute returns is never rejected.
C4_ExecuteNeverThrows == outcome.kind # "rejected"

\* C5: the timeout is a wall-clock bound: no execution is still in
\* progress (spinning, running or suspended in an await) once more than
\* the configured timeout has elapsed since it started.
C5_TimeoutWallClock ==
    execState \in {"sync", "awaiting", "async"} => elapsed <= timeout

\* C6: every execute call that has ended ended as exactly one of Completed,
\* Failed or TimedOut and handed back a result whose fields are gated by
\* success: success = TRUE has no error, success = FALSE has an error and
\* no result.
C6_OneTerminalOutcome ==
    Ended =>
        /\ cause \in {"Completed", "Failed", "TimedOut"}
        /\ outcome.kind = "result"
        /\ outcome.success <=> cause = "Completed"
        /\ outcome.success => ~outcome.hasError
        /\ ~outcome.success => outcome.hasError /\ ~outcome.hasResult

\* C7: the error of a failed execution is the normalized message
\* 'Execution timed out after Nms', N the configured timeout, if and only
\* if the execution was ended by the timeout.
C7_TimeoutDistinguishable ==
    Failed =>
        (outcome.error = <<TimeoutMessage(timeout)>> <=> cause = "TimedOut")

\* C8: generateAndExecute ends in one of two ways only: it returns a result
\* with success = TRUE and the code attached, or it throws the
\* retries-exhausted error.
C8_OnlyExhaustedThrown ==
    /\ gpc = "thrown" => thrownError.kind = "exhausted"
    /\ gpc = "returned" => ret.result.success /\ ret.code = code

\* C9 as stated: the retries-exhausted error names the number of attempts
\* made, that is the number of executions performed, and carries the error
\* of the last failed execution.
C9_NamesAttemptsMade ==
    (Exhausted /\ maxRetries >= 0) =>
        /\ thrownError.retries = execCalls
        /\ thrownError.last = LastOf(errors)

\* C9 amended: the retries-exhausted error names maxRetries, the number of
\* retries, which is one less than the number of executions performed, and
\* carries the error of the last failed execution.
C9_NamesRetries ==
    (Exhausted /\ maxRetries >= 0) =>
        /\ thrownError.retries = maxRetries
        /\ thrownError.retries = execCalls - 1
        /\ errors # <<>>
        /\ thrownError.last = LastOf(errors)
        /\ thrownError.last = outcome.error

\* the last failure differs from the first one
C9_Witness ==
    /\ Exhausted
    /\ maxRetries = 1
    /\ Len(errors) = 2
    /\ errors[1] # errors[2]
    /\ thrownError.last = errors[2]

\* C10: denial by omission: an identifier that is not allow-listed
\* evaluates to undefined and evaluating it raises nothing.
C10_DenialByOmission ==
    (lastRead.name # "" /\ lastRead.name \notin AllowListed) =>
        ~lastRead.threw /\ lastRead.value = "undefined"

\* the entries the console proxy builds for a sequence of calls
Rendered(calls) ==
    [i \in 1..Len(calls) |-> ConsoleLine(calls[i].op, calls[i].arg)]

C12_NothingAfterReturn == obs.returned => consoleOutput = obs.atReturn

\* the entries of an array that the code of call r captured
EntriesOf(out, r) == {i \in 1..Len(out) : out[i].by = r}

\* C13: log buffers are never shared across executions, also for
\* overlapping execute calls on one CodeExecutor: the output of a call
\* holds every entry its own code captured and no entry captured by the
\* code of another call.
C13_BuffersNotShared ==
    \A r \in 1..Len(runs) :
        runs[r].state = "ended" =>
            LET out == heap[runs[r].output] IN
            /\ \A i \in 1..Len(out) : out[i].by = r
            /\ Cardinality(EntriesOf(out, r)) = runs[r].said

\* C14: executions share no state: what the code of an execution finds
\* defined at a path (a global variable, a property of a utility object, a
\* member of the tools namespace) was written by that same execution.
C14_NoSharedState == obs.saw = "'number'" => obs.got \in obs.wrote

\* the dispatches the call sites of the code stand for
Dispatches(sites) == [i \in 1..Len(sites) |-> CallSites[sites[i]]]

\* the code has just been handed the value of a tools.* call
JustResolved ==
    /\ execState = "async"
    /\ ip > 1
    /\ prog[ip - 1].op \in {"call", "trycall"}
    /\ obs.settled.kind = "resolved"

\* C15: every tools.<name>(input) call of the code issues exactly one
\* dispatch callTool(name, input) with that name and input, also when the
\* same call is repeated, and the code gets the value the dispatch
\* resolved with.
C15_OneDispatchPerCall ==
    /\ dispatched = Dispatches(obs.asked)
    /\ JustResolved => acc = obs.settled.value
    /\ (Ended /\ outcome.success /\ prog \in {Code.Call, Code.CallTwice,
                                               Code.CallTwo})
          => outcome.result = obs.settled.value

C15_Witness ==
    /\ Ended
    /\ prog = Code.CallTwice
    /\ outcome.success
    /\ outcome.result = "r2"
    /\ dispatched = << [name |-> "echo", input |-> "1"],
                       [name |-> "echo", input |-> "1"] >>

\* C16: a rejected dispatch is thrown at the awaiting call of the code: if
\* the code catches it the execution goes on and can end with
\* success = TRUE; if it does not, the execution ends with
\* success = FALSE and an error that carries the rejection's message; no
\* dispatch is issued again for it.
C16_RejectionReachesCode ==
    /\ (obs.settled.kind = "rejected" /\ obs.inTry) =>
          /\ execState \in {"async", "ended"}
          /\ Ended => (outcome.success /\ outcome.result = "caught")
    /\ (obs.settled.kind = "rejected" /\ ~obs.inTry) =>
          /\ Failed
          /\ \E i \in 1..Len(outcome.error) :
                LineIncludes(outcome.error[i], "tool failed")
    /\ Len(dispatched) = Len(obs.asked)

C16_Witness ==
    /\ Ended
    /\ prog = Code.TryCall
    /\ obs.settled.kind = "rejected"
    /\ outcome.success
    /\ outcome.result = "caught"
    /\ Len(dispatched) = 1

\* a stack line that names the process hosting the executor: the sandbox
\* host's machinery or a file of the host application
IsHostFrame(line) ==
    \/ IsInternalFrame(line)
    \/ LineIncludes(line, "executor.js")
    \/ LineIncludes(line, "orchestrator.js")

\* C17: the error string of a failed execution holds no stack line that
\* refers to the hosting process, neither node:vm / node:internal frames
\* nor frames of the host application.
C17_NoHostFrames ==
    Failed => \A i \in 1..Len(outcome.error) : ~IsHostFrame(outcome.error[i])

\* C19: no value the code can reach from its context gives it the host
\* process: whatever expression it evaluates, the value is not the host's
\* process object.
C19_NoHostCapability == acc # HostProcess

\* C20: without retryIf and with maxAttempts >= 1, retry calls fn until
\* the first call that resolves or until maxAttempts calls were made; it
\* resolves with the first resolved value, rejects with the error of the
\* last call when all maxAttempts calls rejected, and never calls fn more
\* than maxAttempts times or after a success.
C20_RetryUntilSuccess ==
    (retryIf = "none" /\ maxAttempts >= 1 /\ rpc # "idle") =>
        LET n == Len(fnCalls) IN
        /\ n <= maxAttempts
        /\ \A i \in 1..(n - 1) : ~fnCalls[i].ok
        /\ rpc = "calling" => n = retryAttempt - 1
        /\ rpc = "resolved" =>
              /\ n >= 1
              /\ fnCalls[n].ok
              /\ retrySettled = [kind |-> "resolved",
                                 value |-> fnCalls[n].value]
        /\ rpc = "rejected" =>
              /\ n = maxAttempts
              /\ ~fnCalls[n].ok
              /\ retrySettled = [kind |-> "rejected",
                                 value |-> fnCalls[n].value]

C20_Witness ==
    /\ retryIf = "none"
    /\ maxAttempts = 3
    /\ rpc = "rejected"
    /\ fnCalls = << [ok |-> FALSE, value |-> "fatal"],
                    [ok |-> FALSE, value |-> "fatal"],
                    [ok |-> FALSE, value |-> "transient"] >>
    /\ retrySettled.value = "transient"

\* the entries of a Map that do not belong to server s, and those that do
KeptFrom(m, s) == SelectSeq(m, LAMBDA t : t.serverName # s)
RemovedFrom(m, s) == SelectSeq(m, LAMBDA t : t.serverName = s)

\* C21: unregisterServer(s) removes every tool whose serverName is s,
\* emits one 'removed' event per removed tool, and leaves the tools of
\* every other server present and unchanged.
C21_UnregisterServerFrame ==
    [][\A s \in ServerNames :
          UnregisterServer(s) =>
             /\ tools' = KeptFrom(tools, s)
             /\ emitted' = [i \in 1..Len(RemovedFrom(tools, s)) |->
                               Event("removed", RemovedFrom(tools, s)[i])]]_vars

C21_Witness ==
    /\ tools = << [name |-> "t3", description |-> "d1", serverName |-> "s2"] >>
    /\ emitted =
          << Event("removed", [name |-> "t1", description |-> "d1",
                               serverName |-> "s1"]),
             Event("removed", [name |-> "t2", description |-> "d2",
                               serverName |-> "s1"]) >>

\* C22: tool names are last-write-wins: the registry holds at most one
\* entry per name, the entry is the one of the most recent register of
\* the name, and the generated binding table has exactly one binding per
\* registered name, which reaches that registration.
C22_LastWriteWins ==
    /\ \A i, j \in 1..Len(tools) : tools[i].name = tools[j].name => i = j
    /\ \A n \in ToolNames : Get(tools, n) = lastRegistered[n]
    /\ LET table == generateToolsAPI(tools, {}) IN
          /\ {b.key : b \in table} = {tools[i].name : i \in 1..Len(tools)}
          /\ Cardinality(table) = Len(tools)
          /\ \A b \in table : b.callee = b.key
    /\ bound.key # "" =>
          (bound.found /\ bound.tool = lastRegistered[bound.key])

C22_Witness ==
    /\ tools = << [name |-> "t1", description |-> "d2", serverName |-> "s2"],
                  [name |-> "t2", description |-> "d1", serverName |-> "s1"] >>
    /\ emitted = << Event("added", tools[1]) >>

\* C23: getSnippet(n) returns the snippet saved last under the name n, or
\* null when none was saved under n or it was deleted since; saving or
\* deleting a snippet of another name does not change that.
C23_RoundTrip ==
    snippetGot.asked => snippetGot.result = saved[snippetGot.name]

\* C24: sequence calls the steps one at a time in list order, each once,
\* each with the value the previous one resolved with (the initial
\* context for the first), and resolves with the last step's value; when
\* a step rejects no later step is called and sequence rejects with its
\* error.
C24_StepsInOrder ==
    LET n == Len(stepCalls) IN
    /\ n <= Len(steps)
    /\ \A i \in 1..n :
          /\ stepCalls[i].step = steps[i]
          /\ stepCalls[i].input =
                IF i = 1 THEN initialContext ELSE stepCalls[i - 1].value
          /\ i < n => stepCalls[i].ok
    /\ sequenceSettled.kind = "resolved" =>
          /\ n = Len(steps)
          /\ n >= 1 => (stepCalls[n].ok
                        /\ sequenceSettled.value = stepCalls[n].value)
    /\ sequenceSettled.kind = "rejected" =>
          /\ n >= 1
          /\ ~stepCalls[n].ok
          /\ sequenceSettled.value = stepCalls[n].value
    /\ sequenceSettled.kind = "pending" => (n >= 1 /\ ~stepCalls[n].ok)

C24_Witness ==
    /\ sequenceSettled = [kind |-> "resolved", value |-> "v3"]
    /\ initialContext = "i2"
    /\ stepCalls =
          << [step |-> "step1", input |-> "i2", ok |-> TRUE, value |-> "v1"],
             [step |-> "step2", input |-> "v1", ok |-> TRUE, value |-> "v2"],
             [step |-> "step3", input |-> "v2", ok |-> TRUE, value |-> "v3"] >>

C26_RetryIgnoresKind ==
    (gpc = "thrown" /\ thrownError.kind # "llm") =>
        execCalls = 1 + maxRetries

\* the lines of an answer that are fences, with any tag or none
Fences(r) == {i \in 1..Len(r) : r[i].op = "fence"}

OpeningFence(r) == CHOOSE i \in Fences(r) : \A j \in Fences(r) : i <= j

ClosersOf(r) == {j \in Fences(r) : j > OpeningFence(r) /\ r[j].arg = ""}

HasFencedBlock(r) == Fences(r) # {} /\ ClosersOf(r) # {}

BlockEnd(r) == CHOOSE j \in ClosersOf(r) : \A k \in ClosersOf(r) : j <= k

\* C27: when the answer holds a fenced block (opening fence with an
\* optional language tag, code, closing fence) the extracted code is the
\* trimmed content of the block and holds no fence marker; when it holds
\* none, the extracted code is the whole answer trimmed.
C27_ExtractsBlock ==
    response # <<>> =>
        IF HasFencedBlock(response)
        THEN /\ extracted =
                  Trim(SubSeq(response, OpeningFence(response) + 1,
                              BlockEnd(response) - 1))
             /\ Fences(extracted) = {}
        ELSE extracted = Trim(response)

\* C28: execute reports completion only when the wrapped code's promise
\* has settled: nothing the code awaited is still pending, the code has
\* reached its return or its end (output alone does not end it), and the
\* result is the returned value, undefined when the code does not return.
C28_CompletionAfterSettling ==
    cause = "Completed" =>
        /\ obs.pending = 0
        /\ outcome.success
        /\ IF ip > Len(prog) THEN outcome.result = "undefined"
           ELSE /\ prog[ip].op = "return"
                /\ outcome.result =
                      IF prog[ip].arg = "acc" THEN acc ELSE prog[ip].arg

C28_Witness ==
    /\ cause = "Completed"
    /\ prog = Code.CallTwo
    /\ obs.asked = <<"echo(1)", "add(2)">>
    /\ outcome.result = "r1"
    /\ elapsed > 0

\* C29: the binding table is read-only from the sandbox: code cannot add,
\* replace or delete a member of the tools namespace.
C29_BindingsReadOnly == \A p \in ctx : PathRoot[p] # "tools"

\* a type: a named type or a literal, the array of a type, or the union of
\* some types
NamedType(n) == [k |-> "named", name |-> n, of |-> {}]

LiteralType(v) == [k |-> "literal", name |-> v, of |-> {}]

ArrayType(t) == [k |-> "array", name |-> "", of |-> {t}]

UnionType(ts) ==
    IF Cardinality(ts) = 1 THEN CHOOSE t \in ts : TRUE
    ELSE [k |-> "union", name |-> "", of |-> ts]

\* the type a property schema stands for under the mapping of C30
RECURSIVE TypeOfSchema(_)
TypeOfSchema(s) ==
    IF s.type = "string"
    THEN IF s.enum # <<>>
         THEN UnionType({LiteralType(s.enum[i]) : i \in 1..Len(s.enum)})
         ELSE NamedType("string")
    ELSE IF s.type \in {"number", "integer"} THEN NamedType("number")
    ELSE IF s.type = "boolean" THEN NamedType("boolean")
    ELSE IF s.type = "array"
         THEN ArrayType(IF s.items # {} THEN TypeOfSchema(ItemsOf(s))
                        ELSE NamedType("any"))
    ELSE IF s.type = "object" THEN NamedType("Record<string, any>")
    ELSE NamedType("any")

\* the type one alternative of a union denotes: a postfix [] applies to
\* what stands before it
RECURSIVE ReadAlternative(_)
ReadAlternative(tokens) ==
    IF tokens[Len(tokens)] = "[]"
    THEN ArrayType(ReadAlternative(SubSeq(tokens, 1, Len(tokens) - 1)))
    ELSE IF tokens[1] = "'" THEN LiteralType(tokens[2])
    ELSE NamedType(tokens[1])

Bars(tokens) == {i \in 1..Len(tokens) : tokens[i] = "|"}

\* the alternatives of a type text: | binds weaker than the postfix []
RECURSIVE Alternatives(_)
Alternatives(tokens) ==
    IF Bars(tokens) = {} THEN {ReadAlternative(tokens)}
    ELSE LET b == CHOOSE i \in Bars(tokens) : \A j \in Bars(tokens) : i <= j
         IN  {ReadAlternative(SubSeq(tokens, 1, b - 1))}
             \cup Alternatives(SubSeq(tokens, b + 1, Len(tokens)))

\* the type a generated type text denotes
ReadType(tokens) == UnionType(Alternatives(tokens))

\* C30: the generated type of a property is the type its schema maps to
\* (string, literal union, number, boolean, array of the element type,
\* open record, any), and the property is non-optional exactly when its
\* name is in the required list.
C30_TypeMapping ==
    schema.property # "" =>
        /\ ReadType(generated.type) = TypeOfSchema(schema.of)
        /\ (generated.optional = "" <=> schema.property \in schema.required)

\* C31: console capture follows the captureConsole option: with the option
\* true or unset the console calls of the code are in output, with the
\* option false nothing is captured and output stays empty.
C31_CaptureControlled ==
    IF captureConsole
    THEN obs.calls # <<>> => consoleOutput # <<>>
    ELSE consoleOutput = <<>>

\* the requests of an origin let through at or after time t
AdmittedSince(origin, t) ==
    Cardinality({i \in 1..Len(admitted) :
                    admitted[i].origin = origin /\ admitted[i].at >= t})

\* C32: for every origin and every window the requests let through within
\* the window never exceed the limit of the window; a request that arrives
\* when a counter has reached its limit is rejected and increases no
\* counter, any other request is let through and counted in every window.
C32_RateLimit ==
    /\ \A o \in DOMAIN rateLimits, w \in DOMAIN WindowLength :
          /\ AdmittedSince(o, rateLimits[o].start[w]) <= rateConfig[w]
          /\ AdmittedSince(o, rateLimits[o].start[w]) = rateLimits[o].count[w]
    /\ lastRequest.number > 0 =>
          /\ lastRequest.rejected <=>
                \E w \in DOMAIN WindowLength :
                    lastRequest.arrival[w] >= rateConfig[w]
          /\ ~lastRequest.rejected =>
                (/\ admitted # <<>>
                 /\ admitted[Len(admitted)].origin = lastRequest.origin)
          /\ \A w \in DOMAIN WindowLength :
                rateLimits[lastRequest.origin].count[w] =
                    IF lastRequest.rejected THEN lastRequest.arrival[w]
                    ELSE lastRequest.arrival[w] + 1

C32_Witness ==
    /\ lastRequest.rejected
    /\ lastRequest.origin = "o1"
    /\ rateConfig = [minute |-> 2, hour |-> 1, day |-> 2]
    /\ lastRequest.arrival = [minute |-> 0, hour |-> 1, day |-> 1]
    /\ "unknown" \in DOMAIN rateLimits
    /\ rateLimits["unknown"].count["day"] = 1

\* C33: when approveRequest or rejectRequest has returned for a pending
\* approval, the requestApproval call of that id resolves with that
\* decision, and once it has resolved the id is no longer in the queue.
C33_DecisionReachesCaller ==
    \A id \in 1..Len(approvals) :
        (approvals[id].decision # "none" /\ approvals[id].settled # "none")
            => /\ approvals[id].settled = approvals[id].decision
               /\ ~approvals[id].queued

\* the final status-updates and the events of a task
FinalsOf(taskId) ==
    {i \in 1..Len(events) : events[i].taskId = taskId /\ events[i].final}

\* C34: for every task the bus sees 'working' first, then exactly one final
\* status-update (completed after one artifact-update, or failed), and
\* finished() is called exactly once, after the final status; also when
\* cancelTask is interleaved with execute.
C34_OneFinalStatus ==
    \A taskId \in {"t1", "t2"} :
        /\ Cardinality(FinalsOf(taskId)) <= 1
        /\ finishedCalls[taskId] = Cardinality(FinalsOf(taskId))
        /\ bpc[taskId] = "done" => Cardinality(FinalsOf(taskId)) = 1
        /\ \A i \in FinalsOf(taskId) :
              /\ events[i].state \in {"completed", "failed"}
              /\ \E j \in 1..(i - 1) :
                    /\ events[j].taskId = taskId
                    /\ events[j].state = "working"
              /\ events[i].state = "completed" =>
                    \E j \in 1..(i - 1) :
                        /\ events[j].taskId = taskId
                        /\ events[j].kind = "artifact-update"

\* C35: the tool loop sends at most maxIterations requests, returns the
\* first response that contains no tool calls, throws 'Tool loop exceeded
\* maximum iterations' only when every response up to the limit requested
\* tools, and reports a failing tool as an error result without leaving
\* the loop.
C35_ToolLoop ==
    /\ sampling.pc # "idle" /\ sampling.error # "SamplingCapabilityError" =>
          sampling.requests <= sampling.maxIterations
    /\ \A k \in DOMAIN sampling.messages :
          /\ sampling.messages[k].response.toolUse # <<>>
          /\ \A t \in DOMAIN sampling.messages[k].response.toolUse :
                sampling.messages[k].toolResults[t].isError =
                    sampling.messages[k].response.toolUse[t].throws
    /\ sampling.pc = "returned" => sampling.result[1].toolUse = <<>>
    /\ sampling.error = "Tool loop exceeded maximum iterations" =>
          /\ sampling.requests = sampling.maxIterations
          /\ Len(sampling.messages) = sampling.maxIterations

\* C36: within one generateAndExecute call the tools described to the
\* generating backend are exactly the tools bound in the sandbox of every
\* execution attempt, whatever connects, disconnects or registers
\* meanwhile.
C36_ToolSetConsistent ==
    \A k \in DOMAIN attemptTools : attemptTools[k] = apiContext.names

\* every registered tool belongs to a server that has a client
RegisteredToolsHaveClient ==
    \A i \in DOMAIN tools :
        \E j \in DOMAIN clients : clients[j] = tools[i].serverName

\* C37: under any interleaving of connect(), tool discovery and
\* disconnect() every registered tool belongs to a server with a client,
\* and once disconnect() has resolved the registry is empty and every
\* server reports 'disconnected'.
C37_DisconnectedAfterDisconnect ==
    /\ RegisteredToolsHaveClient
    /\ dpc.pc = "resolved" => tools = <<>> /\ clients = <<>>

\* C38: with a retryIf predicate, an error the predicate refuses makes
\* retry reject at once with that error: it is the last call of fn, no
\* pause follows, whatever attempts remain; an error the predicate accepts
\* is retried within maxAttempts as usual.
C38_RetryIfStops ==
    retryIf # "none" =>
        /\ \A k \in DOMAIN fnCalls :
              (~fnCalls[k].ok /\ fnCalls[k].value = "fatal") =>
                  /\ k = Len(fnCalls)
                  /\ rpc = "rejected"
                  /\ retrySettled = [kind |-> "rejected", value |-> "fatal"]
        /\ Len(fnCalls) <= maxAttempts
        /\ rpc = "waiting" =>
              /\ fnCalls[Len(fnCalls)].value = "transient"
              /\ Len(fnCalls) < maxAttempts
        /\ (rpc = "rejected" /\ fnCalls # <<>>
               /\ fnCalls[Len(fnCalls)].value = "transient") =>
              Len(fnCalls) = maxAttempts

\* a refused error after an accepted one, with an attempt to spare
C38_Witness ==
    /\ retryIf # "none"
    /\ maxAttempts = 3
    /\ Len(fnCalls) = 2
    /\ fnCalls[1].value = "transient"
    /\ fnCalls[2].value = "fatal"
    /\ rpc = "rejected"

====
